---- MODULE Spec2Model ----
(***************************************************************************)
(* MathPilot: the structured LLM invocation layer (provider routing,       *)
(* tenacity retry around call_llm, tolerant JSON extraction and schema     *)
(* validation), the staged code generation pipeline built on it, the      *)
(* entry point it assembles, the requirements manifest and the plan file.  *)
(*                                                                         *)
(* Text is modelled as a sequence of lexemes.  Model identifiers           *)
(* and package names are sequences of single characters.  LLM responses are sequences of JSON    *)
(* and prose lexemes; file names and step ids are sequences of name        *)
(* lexemes.  A lexeme is atomic: no pattern the code searches for starts   *)
(* or ends inside one.                                                     *)
(***************************************************************************)
EXTENDS Integers, Sequences, FiniteSets, TLC

VARIABLES
    rModel,      \* _get_provider: the model identifier passed in
    rProvider,   \* _get_provider: the provider returned ("" before the call)
    xBody,       \* extraction input: the JSON-ish body the text was built from
    xPre,        \* extraction input: prose before the body
    xPost,       \* extraction input: prose after the body
    xFence,      \* extraction input: "none" | "tagged" | "untagged"
    xSchema,     \* extraction input: the target schema
    xText,       \* the text handed to _parse_structured_response
    xResult,     \* its outcome (Pending before the call)
    env,         \* os.environ: which provider API key variables are set
    cModel,      \* call_llm: the model argument (NoneModel for None)
    cSchema,     \* call_llm: the schema argument ("None" for None)
    cPrompt,     \* call_llm: the prompt argument
    attempt,     \* tenacity: retry_state.attempt_number
    sent,        \* the requests that entered a provider adapter, in order
    trace,       \* what the adapter did on each of them (raised / returned text)
    sleeps,      \* tenacity: the number of backoff sleeps taken
    cResult,     \* what call_llm delivered to its caller (CallPending before)
    plan,        \* generate_project_code: plan.steps
    stepIdx,     \* generate_project_code: index of the step of the for loop
    template,    \* generate_project_code: what generate_step_code returned last
    templates,   \* generate_project_code: the dict filename -> CodeTemplate
    proc,        \* the entry point run as a program: status, output, exit code
    reqs,        \* generate_requirements: the text returned
    doc,         \* the ImplementationPlan the plan command holds
    wire,        \* the plan file: the JSON text written
    loaded,      \* the ImplementationPlan the generate command loads
    fn,          \* which caller of call_gemini runs: "parse_paper" | "generate_plan"
    pdf,         \* parse_paper: what the PDF at pdf_path yields
    title,       \* parse_paper: title; generate_plan: paper_title
    context_text, \* parse_paper: the context built for the prompt
    stageResult, \* what parse_paper / generate_plan delivered to its caller
    pc           \* where control is

routerVars == <<rModel, rProvider>>
extractVars == <<xBody, xPre, xPost, xFence, xSchema, xText, xResult>>
callVars == <<env, cModel, cSchema, cPrompt, attempt, sent, trace, sleeps, cResult>>
pipeVars == <<plan, stepIdx, template, templates>>
toolVars == <<proc, reqs, doc, wire, loaded>>
stageVars == <<fn, pdf, title, context_text, stageResult>>
vars == <<rModel, rProvider, xBody, xPre, xPost, xFence, xSchema, xText, xResult,
          env, cModel, cSchema, cPrompt, attempt, sent, trace, sleeps, cResult,
          plan, stepIdx, template, templates, proc, reqs, doc, wire, loaded,
          fn, pdf, title, context_text, stageResult, pc>>

-----------------------------------------------------------------------------
(* Python str operations, on sequences of lexemes.  Indices are 1-based;   *)
(* 0 stands for Python's -1 ("not found").                                 *)

\* s.startswith(p)
StartsWith(s, p) == Len(p) <= Len(s) /\ SubSeq(s, 1, Len(p)) = p

\* s.endswith(p)
EndsWith(s, p) == Len(p) <= Len(s) /\ SubSeq(s, Len(s) - Len(p) + 1, Len(s)) = p

\* p occurs in s at index i
OccursAt(s, p, i) == i >= 1 /\ i + Len(p) - 1 <= Len(s) /\ SubSeq(s, i, i + Len(p) - 1) = p

\* s.find(p, start): the least index >= start where p occurs, 0 when none
FindFrom(s, p, start) ==
    LET hits == {i \in start..Len(s) : OccursAt(s, p, i)}
    IN IF hits = {} THEN 0 ELSE CHOOSE i \in hits : \A j \in hits : i <= j

\* s.find(p)
Find(s, p) == FindFrom(s, p, 1)

\* s.rfind(p): the greatest index where p occurs, 0 when none
RFind(s, p) ==
    LET hits == {i \in 1..Len(s) : OccursAt(s, p, i)}
    IN IF hits = {} THEN 0 ELSE CHOOSE i \in hits : \A j \in hits : j <= i

\* p in s
Contains(s, p) == Find(s, p) # 0

\* all sequences over S of length at most n
SeqsUpTo(S, n) == UNION {[1..k -> S] : k \in 0..n}

-----------------------------------------------------------------------------
(* Configuration: Config() built with no path holds the built-in defaults. *)

\* model-name families, as characters
Gemini == <<"g", "e", "m", "i", "n", "i">>
Claude == <<"c", "l", "a", "u", "d", "e">>
Kimi == <<"k", "i", "m", "i">>
Llama == <<"l", "l", "a", "m", "a">>
Mixtral == <<"m", "i", "x", "t", "r", "a", "l">>
Gemma == <<"g", "e", "m", "m", "a">>
Moonshotai == <<"m", "o", "o", "n", "s", "h", "o", "t", "a", "i">>

\* "moonshotai/kimi-k2-instruct-0905", the fallback of the model default
KimiModel == Moonshotai \o <<"/">> \o Kimi

\* names the Groq rule looks for anywhere in the identifier
GroqNames == {Kimi, Llama, Mixtral, Gemma, Moonshotai}

\* the default config's llm section ("gemini-2.5-pro"); it has no
\* gemini_api_key, anthropic_api_key or groq_api_key entry
ConfigLlm ==
    [provider |-> "gemini",
     model |-> Gemini \o <<"-", "2", ".", "5", "-", "p", "r", "o">>]

\* Config.get("llm.<key>", default): the value, or default when absent or falsy
ConfigGet(key, default) ==
    IF key \in DOMAIN ConfigLlm THEN ConfigLlm[key] ELSE default

-----------------------------------------------------------------------------
(* _get_provider                                                           *)

GetProviderNoPrecedence(model) ==
    IF \E name \in GroqNames : Contains(model, name) THEN "groq"
    ELSE IF StartsWith(model, Gemini) THEN "gemini"
    ELSE IF StartsWith(model, Claude) THEN "anthropic"
    ELSE ConfigGet("provider", "groq")

GetProvider(model) ==
    IF StartsWith(model, Gemini) THEN "gemini"
    ELSE IF StartsWith(model, Claude) THEN "anthropic"
    ELSE IF \E name \in GroqNames : Contains(model, name) THEN "groq"
    ELSE ConfigGet("provider", "groq")

\* the most fragments a generated model identifier is made of
MaxParts == 2

\* fragments the identifiers are built from: the families, pieces that only
\* form a family name when joined, and unrelated text
Fragments ==
    {Gemini, Claude, Kimi, Llama, Mixtral, Gemma, Moonshotai,
     <<"g", "e", "m">>, <<"i", "n", "i">>, <<"k", "i">>, <<"m", "i">>,
     <<"g", "p", "t">>, <<"-">>}

RECURSIVE Concat(_)
Concat(parts) == IF parts = <<>> THEN <<>> ELSE Head(parts) \o Concat(Tail(parts))

ModelIds == {Concat(parts) : parts \in SeqsUpTo(Fragments, MaxParts)}

Providers == {"gemini", "anthropic", "groq"}

InitRouter ==
    /\ rModel \in ModelIds
    /\ rProvider = ""

\* one call of _get_provider(rModel)
Route ==
    /\ rProvider = ""
    /\ rProvider' = GetProvider(rModel)
    /\ UNCHANGED rModel

-----------------------------------------------------------------------------
(* Lexemes of LLM response text.                                           *)
(*   "{" "}"     braces                                                    *)
(*   " "         whitespace (blank or newline)                             *)
(*   "FENCE"     a markdown fence marker (three backticks);  "json"  a tag *)
(*   "w"         a prose word                                              *)
(*   "42"        a bare JSON number                                        *)
(*   "extra:"    a key with its colon, to be followed by a value           *)
(*   "name:'"    a key, colon and opening quote of a string value;         *)
(*   "'"         the closing quote; everything between is string content   *)
(*   others      a complete member, key and value (MemberTable), with the  *)
(*               comma that separates it from its neighbours               *)

LB == "{"
RB == "}"
WS == " "
Fence == "FENCE"
JsonTag == "json"
Word == "w"
Num == "42"
ExtraKey == "extra:"
StrClose == "'"

Step01 == <<"step_", "0", "1">>
Step02 == <<"step_", "0", "2">>
Step03 == <<"step_", "0", "3">>

\* complete members: the field, the JSON type of the value, and the value
MemberTable ==
    ("name:test" :> [field |-> "name", type |-> "str", val |-> <<"test">>])
    @@ ("value:42" :> [field |-> "value", type |-> "int", val |-> <<"42">>])
    @@ ("value:str" :> [field |-> "value", type |-> "str", val |-> <<"not_an_int">>])
    @@ ("step_id:step_01" :> [field |-> "step_id", type |-> "str", val |-> Step01])
    @@ ("step_id:step_02" :> [field |-> "step_id", type |-> "str", val |-> Step02])
    @@ ("step_id:step_03" :> [field |-> "step_id", type |-> "str", val |-> Step03])
    @@ ("filename:step_01_setup.py" :>
            [field |-> "filename", type |-> "str", val |-> Step01 \o <<"_", "setup", ".py">>])
    @@ ("filename:step_02_setup.py" :>
            [field |-> "filename", type |-> "str", val |-> Step02 \o <<"_", "setup", ".py">>])
    @@ ("filename:data_loader.py" :>
            [field |-> "filename", type |-> "str", val |-> <<"data_loader", ".py">>])
    @@ ("filename:main.py" :>
            [field |-> "filename", type |-> "str", val |-> <<"main", ".py">>])
    @@ ("code:pass" :> [field |-> "code", type |-> "str", val |-> <<"pass">>])
    @@ ("code:42" :> [field |-> "code", type |-> "int", val |-> <<"42">>])
    @@ ("dependencies:[NumPy,os]" :>
            [field |-> "dependencies", type |-> "list", val |-> <<<<"N", "u", "m", "P", "y">>, <<"o", "s">>>>])
    @@ ("dependencies:[numpy]" :>
            [field |-> "dependencies", type |-> "list", val |-> <<<<"n", "u", "m", "p", "y">>>>])
    @@ ("title:Sorting" :> [field |-> "title", type |-> "str", val |-> <<"Sorting">>])
    @@ ("title:Algorithm" :> [field |-> "title", type |-> "str", val |-> <<"Algorithm">>])
    @@ ("algorithms:[bubble]" :>
            [field |-> "algorithms", type |-> "list", val |-> <<<<"bubble">>>>])
    @@ ("paper_title:Sorting" :>
            [field |-> "paper_title", type |-> "str", val |-> <<"Sorting">>])
    @@ ("algorithm_name:bubble" :>
            [field |-> "algorithm_name", type |-> "str", val |-> <<"bubble">>])
    @@ ("summary:sorts" :> [field |-> "summary", type |-> "str", val |-> <<"sorts">>])
    @@ ("steps:[step_01]" :> [field |-> "steps", type |-> "list", val |-> <<Step01>>])

MemberLexemes == DOMAIN MemberTable

\* opening of a string-valued member, and the field it belongs to
StrOpenTable == ("name:'" :> "name") @@ ("code:'" :> "code")

StrOpenLexemes == DOMAIN StrOpenTable

-----------------------------------------------------------------------------
(* json.loads, on lexemes: recognises one JSON value (an object, possibly  *)
(* nested, or a bare number) with optional surrounding whitespace and      *)
(* collects the members of the top-level object.                           *)

ScanInit ==
    [phase |-> "start", depth |-> 0, expect |-> FALSE, inStr |-> FALSE,
     strField |-> "", strVal |-> <<>>, members |-> <<>>, isObj |-> FALSE]

AddMember(st, m) ==
    IF st.depth = 1 THEN [st EXCEPT !.members = Append(@, m)] ELSE st

ScanStep(st, tok) ==
    IF st.inStr THEN
        IF tok = StrClose
        THEN [AddMember(st, [field |-> st.strField, type |-> "str", val |-> st.strVal])
                 EXCEPT !.inStr = FALSE, !.strField = "", !.strVal = <<>>]
        ELSE [st EXCEPT !.strVal = Append(@, tok)]
    ELSE IF tok = WS THEN st
    ELSE IF st.phase = "start" THEN
        IF tok = LB THEN [st EXCEPT !.phase = "in", !.depth = 1, !.isObj = TRUE]
        ELSE IF tok = Num THEN [st EXCEPT !.phase = "end"]
        ELSE [st EXCEPT !.phase = "fail"]
    ELSE IF st.phase = "in" /\ st.expect THEN
        IF tok = LB THEN [st EXCEPT !.depth = @ + 1, !.expect = FALSE]
        ELSE IF tok = Num THEN [st EXCEPT !.expect = FALSE]
        ELSE [st EXCEPT !.phase = "fail"]
    ELSE IF st.phase = "in" THEN
        IF tok \in MemberLexemes THEN AddMember(st, MemberTable[tok])
        ELSE IF tok \in StrOpenLexemes
        THEN [st EXCEPT !.inStr = TRUE, !.strField = StrOpenTable[tok]]
        ELSE IF tok = ExtraKey THEN [st EXCEPT !.expect = TRUE]
        ELSE IF tok = RB
        THEN [st EXCEPT !.depth = @ - 1, !.phase = IF st.depth = 1 THEN "end" ELSE "in"]
        ELSE [st EXCEPT !.phase = "fail"]
    ELSE [st EXCEPT !.phase = "fail"]   \* "Extra data" after the value

RECURSIVE ScanFrom(_, _, _)
ScanFrom(s, i, st) ==
    IF i > Len(s) \/ st.phase = "fail" THEN st
    ELSE ScanFrom(s, i + 1, ScanStep(st, s[i]))

\* json.loads(s): ok is FALSE where Python raises JSONDecodeError
JsonLoads(s) ==
    LET st == ScanFrom(s, 1, ScanInit)
    IN [ok |-> st.phase = "end", isObj |-> st.isObj,
        members |-> IF st.phase = "end" THEN st.members ELSE <<>>]

-----------------------------------------------------------------------------
(* pydantic schemas and model_validate                                     *)

Schemas == {"SampleModel", "CodeTemplate"}

\* field -> [type, required, default]
SchemaFields(schema) ==
    IF schema = "SampleModel"
    THEN ("name" :> [type |-> "str", required |-> TRUE, default |-> <<>>])
         @@ ("value" :> [type |-> "int", required |-> TRUE, default |-> <<>>])
    ELSE IF schema = "ParsedPaper"
    THEN ("title" :> [type |-> "str", required |-> TRUE, default |-> <<>>])
         @@ ("algorithms" :> [type |-> "list", required |-> TRUE, default |-> <<>>])
    ELSE IF schema = "ImplementationPlan"
    THEN ("paper_title" :> [type |-> "str", required |-> TRUE, default |-> <<>>])
         @@ ("algorithm_name" :> [type |-> "str", required |-> TRUE, default |-> <<>>])
         @@ ("summary" :> [type |-> "str", required |-> TRUE, default |-> <<>>])
         @@ ("steps" :> [type |-> "list", required |-> TRUE, default |-> <<>>])
    ELSE ("step_id" :> [type |-> "str", required |-> TRUE, default |-> <<>>])
         @@ ("filename" :> [type |-> "str", required |-> TRUE, default |-> <<>>])
         @@ ("code" :> [type |-> "str", required |-> TRUE, default |-> <<>>])
         @@ ("dependencies" :> [type |-> "list", required |-> FALSE, default |-> <<>>])
         @@ ("description" :> [type |-> "str", required |-> FALSE, default |-> <<>>])

\* the last member given for a field (a repeated JSON key keeps the last value)
LastOf(members, f) ==
    LET idx == {i \in 1..Len(members) : members[i].field = f}
    IN members[CHOOSE i \in idx : \A j \in idx : j <= i]

HasField(members, f) == \E i \in 1..Len(members) : members[i].field = f

ValidatesLax(schema, data) ==
    /\ data.isObj
    /\ \A f \in DOMAIN SchemaFields(schema) : HasField(data.members, f)
          \/ ~SchemaFields(schema)[f].required

\* model_validate succeeds: an object, every required field present, every
\* present field of the declared type (fields outside the schema are ignored)
Validates(schema, data) ==
    /\ data.isObj
    /\ \A f \in DOMAIN SchemaFields(schema) :
          IF HasField(data.members, f)
          THEN LastOf(data.members, f).type = SchemaFields(schema)[f].type
          ELSE ~SchemaFields(schema)[f].required

\* the validated model: every schema field, from the data or its default
ToModel(schema, data) ==
    [f \in DOMAIN SchemaFields(schema) |->
        IF HasField(data.members, f) THEN LastOf(data.members, f).val
        ELSE SchemaFields(schema)[f].default]

-----------------------------------------------------------------------------
(* _parse_structured_response                                              *)

\* str.strip(): drop leading and trailing whitespace
RECURSIVE LStrip(_)
LStrip(s) == IF s # <<>> /\ Head(s) = WS THEN LStrip(Tail(s)) ELSE s

RECURSIVE RStrip(_)
RStrip(s) ==
    IF s # <<>> /\ s[Len(s)] = WS THEN RStrip(SubSeq(s, 1, Len(s) - 1)) ELSE s

Strip(s) == RStrip(LStrip(s))

\* the interior of the block opened by marker `open`, when it is closed by a
\* later fence and is not empty; otherwise the text unchanged
FenceInterior(c, open) ==
    LET start == Find(c, open) + Len(open)
        end == FindFrom(c, <<Fence>>, start)
    IN IF end > start THEN Strip(SubSeq(c, start, end - 1)) ELSE c

\* "Clean up markdown code blocks": a fence tagged json first, else any fence
StripFences(c) ==
    IF Contains(c, <<Fence, JsonTag>>) THEN FenceInterior(c, <<Fence, JsonTag>>)
    ELSE IF Contains(c, <<Fence>>) THEN FenceInterior(c, <<Fence>>)
    ELSE c

TrimBracesNone(c) == c

\* "Remove any leading/trailing non-JSON characters": cut before the first
\* "{" and after the last "}"
TrimBraces(c) ==
    LET c2 == IF ~StartsWith(c, <<LB>>) /\ Contains(c, <<LB>>)
              THEN SubSeq(c, Find(c, <<LB>>), Len(c)) ELSE c
    IN IF ~EndsWith(c2, <<RB>>) /\ Contains(c2, <<RB>>)
       THEN SubSeq(c2, 1, RFind(c2, <<RB>>)) ELSE c2

\* the text handed to json.loads
CleanText(text) == TrimBraces(StripFences(Strip(text)))

NoValue == <<>>
ParseMsg == "Invalid JSON from LLM"
SchemaMsg == "Response doesn't match schema"

Raised(kind, msg) == [kind |-> kind, msg |-> msg, value |-> NoValue]
Returned(value) == [kind |-> "ok", msg |-> "", value |-> value]
Pending == [kind |-> "pending", msg |-> "", value |-> NoValue]

ParseStructuredPartial(text, schema) ==
    LET data == JsonLoads(CleanText(text))
    IN IF ~data.ok THEN Returned(ToModel(schema, data))
       ELSE IF ~Validates(schema, data) THEN Raised("ValueError", SchemaMsg)
       ELSE Returned(ToModel(schema, data))

ParseStructured(text, schema) ==
    LET data == JsonLoads(CleanText(text))
    IN IF ~data.ok THEN Raised("ValueError", ParseMsg)
       ELSE IF ~Validates(schema, data) THEN Raised("ValueError", SchemaMsg)
       ELSE Returned(ToModel(schema, data))

-----------------------------------------------------------------------------
(* Inputs of the extraction: bodies wrapped as LLMs wrap them.             *)

\* the most prose lexemes around a body, before and after it together
MaxProse == 2

ProseLexemes == {Word, WS, LB, RB, Fence}

FenceModes == {"none", "tagged", "untagged"}

\* payloads that are well-formed JSON and match the schema
ConformingBodies(schema) ==
    IF schema = "SampleModel"
    THEN {<<LB, "name:test", "value:42", RB>>,
          <<LB, "name:test", "value:42", ExtraKey, LB, "name:test", RB, RB>>,
          <<LB, "value:42", "name:'", RB, LB, StrClose, RB>>,
          <<LB, "value:42", "name:'", Fence, Word, Fence, StrClose, RB>>}
    ELSE {<<LB, "step_id:step_01", "filename:step_01_setup.py", "code:pass", RB>>,
          <<LB, "step_id:step_01", "filename:data_loader.py", "code:'", LB, RB, StrClose,
            "dependencies:[numpy]", RB>>}

\* well-formed JSON that does not match the schema: wrong type, missing
\* required field, not an object
NonConformingBodies(schema) ==
    IF schema = "SampleModel"
    THEN {<<LB, "name:test", "value:str", RB>>, <<LB, "name:test", RB>>,
          <<Num>>, <<LB, RB>>}
    ELSE {<<LB, "step_id:step_01", "code:pass", RB>>,
          <<LB, "step_id:step_01", "filename:data_loader.py", "code:42", RB>>}

\* not JSON: truncated, an object with no key, empty, prose, open string
MalformedBodies(schema) ==
    IF schema = "SampleModel"
    THEN {<<LB, "name:test", "value:42">>,
          <<LB, LB, "name:test", "value:42", RB, RB>>,
          <<>>, <<Word>>}
    ELSE {<<LB, "step_id:step_01", "filename:data_loader.py", "code:'", Word, RB>>}

\* a conforming object announced by a word of prose ("Here: {...}")
IntroducedBodies(schema) ==
    IF schema = "SampleModel"
    THEN {<<Word, WS, LB, "name:test", "value:42", RB>>}
    ELSE {<<Word, WS, LB, "step_id:step_01", "filename:step_01_setup.py", "code:pass", RB>>}

Bodies(schema) ==
    ConformingBodies(schema) \cup NonConformingBodies(schema) \cup MalformedBodies(schema)
        \cup IntroducedBodies(schema)

Encode(body, pre, post, fence) ==
    IF fence = "tagged" THEN pre \o <<Fence, JsonTag, WS>> \o body \o <<WS, Fence>> \o post
    ELSE IF fence = "untagged" THEN pre \o <<Fence, WS>> \o body \o <<WS, Fence>> \o post
    ELSE pre \o body \o post

InitExtract ==
    /\ xSchema \in Schemas
    /\ xBody \in Bodies(xSchema)
    /\ xPre \in SeqsUpTo(ProseLexemes, MaxProse)
    /\ xPost \in SeqsUpTo(ProseLexemes, MaxProse - Len(xPre))
    /\ xFence \in FenceModes
    /\ xText = Encode(xBody, xPre, xPost, xFence)
    /\ xResult = Pending

\* one call of _parse_structured_response(xText, xSchema)
Extract ==
    /\ xResult.kind = "pending"
    /\ xResult' = ParseStructured(xText, xSchema)
    /\ UNCHANGED <<xBody, xPre, xPost, xFence, xSchema, xText>>

-----------------------------------------------------------------------------
(* Provider adapters                                                       *)

Err(kind, msg) == [kind |-> kind, msg |-> msg]

\* the config key each adapter reads its API key from
ApiKeyName(provider) ==
    IF provider = "gemini" THEN "gemini_api_key"
    ELSE IF provider = "anthropic" THEN "anthropic_api_key"
    ELSE "groq_api_key"

\* whether the adapter finds an API key: the config entry, else (Anthropic and
\* Groq only) the environment variable
HasApiKey(provider, e) ==
    \/ ConfigGet(ApiKeyName(provider), "") # ""
    \/ provider # "gemini" /\ e[provider]

NotConfigured(provider) ==
    IF provider = "gemini" THEN Err("ValueError", "GEMINI_API_KEY not configured.")
    ELSE IF provider = "anthropic"
    THEN Err("ValueError", "ANTHROPIC_API_KEY (or CLAUDE_API_KEY) not configured.")
    ELSE Err("ValueError", "GROQ_API_KEY not configured.")

\* the failures of a configured adapter: the client raises (Groq wraps it in a
\* ValueError), or the response is empty
ProviderFailures(provider) ==
    IF provider = "anthropic"
    THEN {Err("APIError", "anthropic client error"),
          Err("ValueError", "Empty response from Claude")}
    ELSE IF provider = "groq"
    THEN {Err("ValueError", "Groq API call failed"),
          Err("ValueError", "Received empty content from Groq")}
    ELSE {Err("GoogleAPIError", "gemini client error"),
          Err("ValueError", "Empty response from Gemini")}

AdapterRaised(err) == [kind |-> "error", err |-> err, text |-> <<>>]
AdapterText(text) == [kind |-> "text", err |-> Err("", ""), text |-> text]

\* texts a provider may answer, by the schema the caller asked for
Responses(schema) ==
    IF schema = "SampleModel"
    THEN {<<LB, "name:test", "value:42", RB>>,
          <<Word, WS, Fence, JsonTag, WS, LB, "name:test", "value:42", RB, WS, Fence>>,
          <<LB, "name:test", "value:str", RB>>,
          <<LB, "name:test", "value:42">>}
    ELSE IF schema = "CodeTemplate"
    THEN {<<LB, "step_id:step_01", "filename:step_01_setup.py", "code:pass",
            "dependencies:[NumPy,os]", RB>>,
          <<Fence, JsonTag, WS, LB, "step_id:step_02", "filename:step_02_setup.py",
            "code:pass", "dependencies:[numpy]", RB, WS, Fence>>,
          <<LB, "step_id:step_03", "filename:data_loader.py", "code:pass", RB>>,
          <<LB, "step_id:step_01", "filename:main.py", "code:pass", RB>>,
          <<LB, "step_id:step_01", "code:pass", RB>>,
          <<LB, "step_id:step_01", "filename:data_loader.py", "code:'", Word>>}
    ELSE IF schema = "ParsedPaper"
    THEN {<<LB, "title:Sorting", "algorithms:[bubble]", RB>>,
          <<Fence, JsonTag, WS, LB, "title:Algorithm", "algorithms:[bubble]", RB, WS, Fence>>,
          <<LB, "title:Sorting", RB>>,
          <<LB, "title:Sorting", "algorithms:[bubble]">>}
    ELSE IF schema = "ImplementationPlan"
    THEN {<<LB, "paper_title:Sorting", "algorithm_name:bubble", "summary:sorts",
            "steps:[step_01]", RB>>,
          <<LB, "paper_title:Sorting", "algorithm_name:bubble", "summary:sorts", RB>>,
          <<Word, WS, LB, "paper_title:Sorting">>}
    ELSE {<<Word>>, <<LB, "name:test", "value:42", RB>>}

\* everything one adapter call can do; a provider that is none of the three
\* reaches no adapter and raises in the body
AdapterOutcomes(provider, e, schema) ==
    IF provider \notin Providers
    THEN {AdapterRaised(Err("ValueError", "Unknown LLM provider for model"))}
    ELSE IF ~HasApiKey(provider, e) THEN {AdapterRaised(NotConfigured(provider))}
    ELSE {AdapterRaised(err) : err \in ProviderFailures(provider)}
         \cup {AdapterText(t) : t \in Responses(schema)}

-----------------------------------------------------------------------------
(* call_llm under @retry(stop_after_attempt(3), wait_exponential,          *)
(* retry_if_exception_type(Exception))                                     *)

MaxAttempts == 3

NoneModel == <<"None">>
NoSchema == "None"

\* _get_json_instruction(schema)
JsonInstruction(schema) == <<"You must output valid JSON matching this schema:", schema>>

BuildPromptTwice(prompt, schema) ==
    IF schema # NoSchema
    THEN prompt \o <<"\n\n">> \o JsonInstruction(schema) \o <<"\n\n">> \o JsonInstruction(schema)
    ELSE prompt

\* the prompt the body sends: the instruction appended when a schema is given
BuildPrompt(prompt, schema) ==
    IF schema # NoSchema THEN prompt \o <<"\n\n">> \o JsonInstruction(schema) ELSE prompt

\* model defaults to config llm.model
EffectiveModel(model) ==
    IF model = NoneModel THEN ConfigGet("model", KimiModel) ELSE model

CallPending == [status |-> "pending", kind |-> "", msg |-> "", chain |-> <<>>, value |-> NoValue]
CallReturned(v) == [status |-> "returned", kind |-> "", msg |-> "", chain |-> <<>>, value |-> v]
CallRaised(kind, msg, chain) ==
    [status |-> "raised", kind |-> kind, msg |-> msg, chain |-> chain, value |-> NoValue]

\* the error an adapter outcome leads to inside the body, if any: the adapter's
\* own, or the one _parse_structured_response raises on the text
UnderlyingError(out, schema) ==
    IF out.kind = "error" THEN out.err
    ELSE LET r == ParseStructured(out.text, schema) IN Err(r.kind, r.msg)

\* the body's try block succeeds on this adapter outcome
BodySucceeds(out, schema) ==
    /\ out.kind = "text"
    /\ schema = NoSchema \/ ParseStructured(out.text, schema).kind = "ok"

\* what the body returns when it succeeds
BodyValue(out, schema) ==
    IF schema = NoSchema THEN out.text ELSE ParseStructured(out.text, schema).value

\* except Exception as e: raise ValueError(f"LLM call failed: {e}") from e
BodyError(out, schema) ==
    CallRaised("ValueError", "LLM call failed", <<UnderlyingError(out, schema)>>)

RetryIfNotValueError(err) == err.kind # "ValueError"

\* retry=retry_if_exception_type(Exception): every error of the body is retried
RetryIf(err) == TRUE

StopAfterAttemptLate(n) == n > MaxAttempts

\* stop=stop_after_attempt(3)
StopAfterAttempt(n) == n >= MaxAttempts

RetryExhaustedReraise(last) == last

\* tenacity without reraise: RetryError wrapping the last attempt's error
RetryExhausted(last) ==
    CallRaised("RetryError", "", <<Err(last.kind, last.msg)>> \o last.chain)

\* the provider adapters the requests of the current call went to
Provider == GetProvider(EffectiveModel(cModel))

\* one attempt: the body of call_llm runs once, then tenacity decides
Attempt ==
    /\ pc = "attempt"
    /\ \E out \in AdapterOutcomes(Provider, env, cSchema) :
        /\ sent' = IF Provider \in Providers
                   THEN Append(sent, [provider |-> Provider,
                                      model |-> EffectiveModel(cModel),
                                      prompt |-> BuildPrompt(cPrompt, cSchema),
                                      temperature |-> "0.1"])
                   ELSE sent
        /\ trace' = Append(trace, out)
        /\ IF BodySucceeds(out, cSchema)
           THEN /\ cResult' = CallReturned(BodyValue(out, cSchema))
                /\ pc' = "returned"
           ELSE IF ~RetryIf(BodyError(out, cSchema))
           THEN /\ cResult' = BodyError(out, cSchema)
                /\ pc' = "returned"
           ELSE IF StopAfterAttempt(attempt)
           THEN /\ cResult' = RetryExhausted(BodyError(out, cSchema))
                /\ pc' = "returned"
           ELSE /\ cResult' = cResult
                /\ pc' = "sleep"
    /\ UNCHANGED <<env, cModel, cSchema, cPrompt, attempt, sleeps>>
    /\ UNCHANGED pipeVars

\* before_sleep, the backoff sleep, and the next attempt number
Backoff ==
    /\ pc = "sleep"
    /\ sleeps' = sleeps + 1
    /\ attempt' = attempt + 1
    /\ pc' = "attempt"
    /\ UNCHANGED <<env, cModel, cSchema, cPrompt, sent, trace, cResult>>
    /\ UNCHANGED pipeVars

-----------------------------------------------------------------------------
(* Python dict, insertion-ordered: a sequence of [key, val] entries.       *)

DictHas(d, k) == \E i \in 1..Len(d) : d[i].key = k

DictGet(d, k) == d[CHOOSE i \in 1..Len(d) : d[i].key = k].val

\* d[k] = v: a new key is appended, an existing key keeps its position
DictSet(d, k, v) ==
    IF DictHas(d, k)
    THEN [i \in 1..Len(d) |-> IF d[i].key = k THEN [key |-> k, val |-> v] ELSE d[i]]
    ELSE Append(d, [key |-> k, val |-> v])

-----------------------------------------------------------------------------
(* generate_step_code                                                      *)

NL == "\n"

\* the prompt built from the step's metadata and the pipeline context
StepPrompt(step) ==
    <<"Step ID:">> \o step.step_id \o <<"Title:">> \o step.title
        \o <<"Dependencies (Previous Steps):">> \o Concat(step.dependencies)

\* str(e) of the exception call_llm raised
StrOfError(res) ==
    IF res.kind = "RetryError"
    THEN <<"RetryError[<Future raised ", res.chain[1].kind, ">]">>
    ELSE <<res.msg>>

\* the except branch: the placeholder CodeTemplate
Placeholder(step, res) ==
    [step_id |-> step.step_id,
     filename |-> step.step_id \o <<"_", "error", ".py">>,
     code |-> <<"#", "Error generating code:">> \o StrOfError(res)
                \o <<NL, "#", "Please implement manually.">>,
     dependencies |-> <<>>,
     description |-> <<"Generation failed">>]

StepCodePropagate(step, res) ==
    IF res.status = "returned"
    THEN [raised |-> FALSE, template |-> [res.value EXCEPT !.step_id = step.step_id]]
    ELSE [raised |-> TRUE, template |-> Placeholder(step, res)]

StepCodeKeepId(step, res) ==
    IF res.status = "returned"
    THEN [raised |-> FALSE, template |-> res.value]
    ELSE [raised |-> FALSE, template |-> Placeholder(step, res)]

\* what generate_step_code does with the outcome of its call_llm: the
\* validated template with the step's id forced on it, or the placeholder;
\* raised tells whether an exception leaves generate_step_code
StepCode(step, res) ==
    IF res.status = "returned"
    THEN [raised |-> FALSE, template |-> [res.value EXCEPT !.step_id = step.step_id]]
    ELSE [raised |-> FALSE, template |-> Placeholder(step, res)]

-----------------------------------------------------------------------------
(* generate_main_file                                                      *)

Digits == {"0", "1", "2", "3", "4", "5", "6", "7", "8", "9"}

MainId == <<"main">>
MainFilename == <<"main", ".py">>

\* filename.replace(".py", "")
RemovePy(filename) == SelectSeq(filename, LAMBDA x : x # ".py")

\* re.match(r"(step_\d+)", base) matches
StepMatch(base) == Len(base) >= 2 /\ base[1] = "step_" /\ base[2] \in Digits

StepGroupOneDigit(base) == SubSeq(base, 1, 2)

\* match.group(1): "step_" and the longest run of digits after it
StepGroup(base) ==
    LET run == {n \in 2..Len(base) : \A i \in 2..n : base[i] \in Digits}
    IN SubSeq(base, 1, CHOOSE n \in run : \A m \in run : m <= n)

\* step_modules: step id parsed from the filename -> module name
RECURSIVE StepModulesFrom(_, _, _)
StepModulesFrom(tmpls, i, acc) ==
    IF i > Len(tmpls) THEN acc
    ELSE LET t == tmpls[i].val
             base == RemovePy(t.filename)
         IN StepModulesFrom(tmpls, i + 1,
                IF t.step_id # MainId /\ StepMatch(base)
                THEN DictSet(acc, StepGroup(base), base) ELSE acc)

StepModules(tmpls) == StepModulesFrom(tmpls, 1, <<>>)

\* the plan steps that get an import and an execution block, in plan order
IncludedSteps(steps, tmpls) ==
    SelectSeq(steps, LAMBDA st : DictHas(StepModules(tmpls), st.step_id))

RECURSIVE ImportLines(_, _)
ImportLines(steps, mods) ==
    IF steps = <<>> THEN <<>>
    ELSE <<NL, "import">> \o DictGet(mods, Head(steps).step_id)
            \o ImportLines(Tail(steps), mods)

StepBlock(step) ==
    <<NL, "# Step:">> \o step.title
    \o <<NL, "print [">> \o step.step_id \o <<"]">>
    \o <<NL, "step_start = time.time()", NL, "try:", NL, "results[">> \o step.step_id
    \o <<"] = result", NL, "print completed:">> \o step.title
    \o <<NL, "except Exception as e:", NL, "print failed:">> \o step.title \o <<NL, "raise">>

RECURSIVE BlockLines(_)
BlockLines(steps) ==
    IF steps = <<>> THEN <<>> ELSE StepBlock(Head(steps)) \o BlockLines(Tail(steps))

GenerateMainFileNoSkip(steps, tmpls) ==
    [step_id |-> MainId,
     filename |-> MainFilename,
     code |-> <<"import sys", NL, "import time", NL, "from pathlib import Path">>
                \o ImportLines(IncludedSteps(steps, tmpls), StepModules(tmpls))
                \o <<NL, NL, "def main():", NL, "results = {}">>
                \o BlockLines(steps)
                \o <<NL, "return results", NL, "if __name__ == \"__main__\":", NL,
                     "results = main()">>,
     dependencies |-> <<>>,
     description |-> <<"Main orchestration file that chains all workflow steps">>]

\* generate_main_file(plan, templates): the imports, main() with one block
\* per plan step that has a module, the summary and the __main__ guard
GenerateMainFile(steps, tmpls) ==
    LET inc == IncludedSteps(steps, tmpls)
    IN [step_id |-> MainId,
        filename |-> MainFilename,
        code |-> <<"import sys", NL, "import time", NL, "from pathlib import Path">>
                   \o ImportLines(inc, StepModules(tmpls))
                   \o <<NL, NL, "def main():", NL, "results = {}", NL,
                        "total_start = time.time()">>
                   \o BlockLines(inc)
                   \o <<NL, "print total_elapsed", NL, "print success", NL, "return results",
                        NL, "if __name__ == \"__main__\":", NL, "try:", NL, "results = main()",
                        NL, "except Exception as e:", NL, "sys.exit(1)">>,
        dependencies |-> <<>>,
        description |-> <<"Main orchestration file that chains all workflow steps">>]

\* the first position after i where the lexeme stands
NextAt(code, i, lex) ==
    CHOOSE k \in i + 1..Len(code) :
        code[k] = lex /\ \A m \in i + 1..k - 1 : code[m] # lex

\* the positions of a lexeme in the code, in increasing order
Positions(code, lex) ==
    LET P == {i \in 1..Len(code) : code[i] = lex}
    IN [k \in 1..Cardinality(P) |-> CHOOSE i \in P : Cardinality({j \in P : j < i}) = k - 1]

\* the execution blocks of an entry point's code, in the order they run: the
\* step id of the start line and the title of the completed and failed lines
Blocks(code) ==
    LET at == Positions(code, "# Step:")
    IN [k \in 1..Len(at) |->
          LET e == NextAt(code, at[k], NL)
              c == NextAt(code, e + 1, "]")
          IN [step_id |-> SubSeq(code, e + 2, c - 1), title |-> SubSeq(code, at[k] + 1, e - 1)]]

\* the step ids of the execution blocks, in the order they run
ExecOrder(code) == [i \in 1..Len(Blocks(code)) |-> Blocks(code)[i].step_id]

\* the modules an entry point's code imports, in order
Imported(code) ==
    LET at == Positions(code, "import")
    IN [k \in 1..Len(at) |-> SubSeq(code, at[k] + 1, NextAt(code, at[k], NL) - 1)]

-----------------------------------------------------------------------------
(* generate_project_code                                                   *)

ChainPlan ==
    <<[step_id |-> Step01, title |-> <<"Setup">>, dependencies |-> <<>>],
      [step_id |-> Step02, title |-> <<"Generate Data">>, dependencies |-> <<Step01>>],
      [step_id |-> Step03, title |-> <<"Process Data">>, dependencies |-> <<Step02>>]>>

\* an acyclic plan declared out of dependency order: the plan is the validated
\* answer of the planning call or a plan file, and nothing checks its graph
OutOfOrderPlan ==
    <<[step_id |-> Step02, title |-> <<"Generate Data">>, dependencies |-> <<Step01>>],
      [step_id |-> Step01, title |-> <<"Setup">>, dependencies |-> <<>>]>>

\* a plan whose only step depends on a step_id the plan does not have
UnknownDepPlan ==
    <<[step_id |-> Step01, title |-> <<"Setup">>, dependencies |-> <<Step03>>]>>

\* a plan with a 2-cycle
CyclePlan ==
    <<[step_id |-> Step01, title |-> <<"Setup">>, dependencies |-> <<Step02>>],
      [step_id |-> Step02, title |-> <<"Generate Data">>, dependencies |-> <<Step01>>]>>

\* the plans generated for: the chain of the tests and its prefixes, and the
\* plans no validation keeps out
Plans ==
    {SubSeq(ChainPlan, 1, n) : n \in 1..Len(ChainPlan)}
        \cup {OutOfOrderPlan, UnknownDepPlan, CyclePlan}

ClaudeModel == Claude \o <<"-", "3">>

\* the model_name values passed down: None, a Groq model, an Anthropic model
ModelArgs == {NoneModel, KimiModel, ClaudeModel}

NoTemplate ==
    [step_id |-> <<>>, filename |-> <<>>, code |-> <<>>, dependencies |-> <<>>,
     description |-> <<>>]

\* the for loop reaches a step: generate_step_code builds the prompt and
\* enters call_llm
StartStep ==
    /\ pc = "loop"
    /\ stepIdx <= Len(plan)
    /\ cPrompt' = StepPrompt(plan[stepIdx])
    /\ cSchema' = "CodeTemplate"
    /\ attempt' = 1
    /\ sent' = <<>>
    /\ trace' = <<>>
    /\ sleeps' = 0
    /\ cResult' = CallPending
    /\ pc' = "attempt"
    /\ UNCHANGED <<env, cModel, plan, stepIdx, template, templates>>

\* call_llm is back: generate_step_code returns its artifact (or raises) and
\* the loop stores it under its filename
FinishStep ==
    /\ pc = "returned"
    /\ LET out == StepCode(plan[stepIdx], cResult)
       IN IF out.raised
          THEN /\ pc' = "aborted"
               /\ UNCHANGED <<template, templates, stepIdx>>
          ELSE /\ template' = out.template
               /\ templates' = DictSet(templates, out.template.filename, out.template)
               /\ stepIdx' = stepIdx + 1
               /\ pc' = "loop"
    /\ UNCHANGED <<env, cModel, cSchema, cPrompt, attempt, sent, trace, sleeps, cResult, plan>>

AssembleEarly ==
    /\ pc = "loop"
    /\ LET main == GenerateMainFile(plan, templates)
       IN /\ template' = main
          /\ templates' = DictSet(templates, main.filename, main)
    /\ pc' = "done"
    /\ UNCHANGED <<env, cModel, cSchema, cPrompt, attempt, sent, trace, sleeps, cResult,
                   plan, stepIdx>>

\* after the loop: generate_main_file, stored under "main.py"; return
Assemble ==
    /\ pc = "loop"
    /\ stepIdx > Len(plan)
    /\ LET main == GenerateMainFile(plan, templates)
       IN /\ template' = main
          /\ templates' = DictSet(templates, main.filename, main)
    /\ pc' = "done"
    /\ UNCHANGED <<env, cModel, cSchema, cPrompt, attempt, sent, trace, sleeps, cResult,
                   plan, stepIdx>>

-----------------------------------------------------------------------------
(* generate_main_file called on a plan and an artifact map, and the entry  *)
(* point it returns run as a program (python main.py)                      *)

MaxArtifacts == 3

Artifact(id, filename) ==
    [step_id |-> id, filename |-> filename, code |-> <<"pass">>, dependencies |-> <<>>,
     description |-> <<>>]

\* artifacts a map may hold: named after their step as in the tests, named
\* after another step, named without a step prefix, a placeholder, a main
Artifacts ==
    {Artifact(Step01, Step01 \o <<"_", "test", ".py">>),
     Artifact(Step02, Step02 \o <<"_", "test", ".py">>),
     Artifact(Step03, Step03 \o <<"_", "test", ".py">>),
     Artifact(Step01, Step02 \o <<"_", "init", ".py">>),
     Artifact(Step03, <<"data_loader", ".py">>),
     Artifact(Step02, Step02 \o <<"_", "error", ".py">>),
     Artifact(<<"setup">>, <<"setup", ".py">>),
     Artifact(MainId, MainFilename)}

\* the dicts filename -> CodeTemplate of up to MaxArtifacts entries
ArtifactMaps ==
    {[i \in 1..Len(q) |-> [key |-> q[i].filename, val |-> q[i]]] :
        q \in {r \in SeqsUpTo(Artifacts, MaxArtifacts) :
                  \A i, j \in 1..Len(r) : r[i].filename = r[j].filename => i = j}}

\* a plan whose step_id is not of the form step_NN: step_id is any string
NamedPlan == <<[step_id |-> <<"setup">>, title |-> <<"Setup">>, dependencies |-> <<>>]>>

InitMain ==
    /\ plan \in Plans \cup {NamedPlan}
    /\ templates \in ArtifactMaps
    /\ stepIdx = 0
    /\ template = NoTemplate
    /\ pc = "assemble"

\* main = generate_main_file(plan, templates)
AssembleMain ==
    /\ pc = "assemble"
    /\ template' = GenerateMainFile(plan, templates)
    /\ pc' = "assembled"
    /\ UNCHANGED <<plan, stepIdx, templates, toolVars>>

Event(ev, step) == [ev |-> ev, step |-> step]

NotStarted == [status |-> "idle", next |-> 0, out |-> <<>>, exit |-> -1]

\* the process ends through sys.exit(code) or by falling off the end (0)
Exited(p, code) == [p EXCEPT !.status = "exited", !.exit = code]

\* a block whose try body runs through: start line, result stored, completed
\* line, and on to the next block
CompleteStep(p, b) ==
    [p EXCEPT !.out = p.out \o <<Event("started", b.step_id), Event("completed", b.title)>>,
              !.next = p.next + 1]

HandleStepErrorSwallow(p, b) ==
    [p EXCEPT !.out = p.out \o <<Event("started", b.step_id), Event("failed", b.title)>>,
              !.next = p.next + 1]

\* a block whose try body raises: the except clause prints the failed line
\* with the step's title and re-raises, out of main()
HandleStepError(p, b) ==
    [p EXCEPT !.out = p.out \o <<Event("started", b.step_id), Event("failed", b.title)>>,
              !.status = "raised"]

\* python main.py: the module's imports run, then main() prints its header;
\* an import that raises ends the process with a traceback and status 1
StartMain ==
    /\ pc = "assembled"
    /\ \/ proc' = [status |-> "running", next |-> 1, out |-> <<Event("header", <<>>)>>,
                   exit |-> -1]
       \/ \E k \in 1..Len(Imported(template.code)) :
            proc' = Exited([NotStarted EXCEPT
                        !.out = <<Event("traceback", Imported(template.code)[k])>>], 1)
    /\ pc' = "run"
    /\ UNCHANGED <<pipeVars, reqs, doc, wire, loaded>>

\* the next execution block runs: its try body runs through or raises
RunBlock ==
    /\ pc = "run" /\ proc.status = "running"
    /\ proc.next <= Len(Blocks(template.code))
    /\ \E raises \in BOOLEAN :
        proc' = IF raises THEN HandleStepError(proc, Blocks(template.code)[proc.next])
                ELSE CompleteStep(proc, Blocks(template.code)[proc.next])
    /\ UNCHANGED <<pipeVars, reqs, doc, wire, loaded, pc>>

\* after the last block: total time, success line, return results; the
\* __main__ guard has nothing to catch and the process ends with status 0
Summary ==
    /\ pc = "run" /\ proc.status = "running"
    /\ proc.next > Len(Blocks(template.code))
    /\ proc' = Exited([proc EXCEPT !.out = proc.out \o <<Event("total elapsed", <<>>),
                                                        Event("success", <<>>)>>], 0)
    /\ UNCHANGED <<pipeVars, reqs, doc, wire, loaded, pc>>

\* the __main__ guard catches what main() raised: message on stderr, sys.exit(1)
Guard ==
    /\ pc = "run" /\ proc.status = "raised"
    /\ proc' = Exited([proc EXCEPT !.out = proc.out \o <<Event("workflow failed", <<>>)>>], 1)
    /\ UNCHANGED <<pipeVars, reqs, doc, wire, loaded, pc>>

-----------------------------------------------------------------------------
(* generate_requirements                                                   *)

\* the characters of the package names, in code point order
CodePoints ==
    <<"-", "2", "I", "N", "O", "P", "S", "a", "c", "d", "i", "m", "n", "o", "p", "s", "u", "y">>

\* ord(c)
Ord(c) == CHOOSE i \in 1..Len(CodePoints) : CodePoints[i] = c

\* str.lower(), character by character
Lower(name) ==
    LET lower == ("I" :> "i") @@ ("N" :> "n") @@ ("O" :> "o") @@ ("P" :> "p") @@ ("S" :> "s")
    IN [i \in 1..Len(name) |-> IF name[i] \in DOMAIN lower THEN lower[name[i]] ELSE name[i]]

\* a < b for two str: the first differing character decides, else the length
LexLess(a, b) ==
    \/ \E i \in 1..Len(a) :
          /\ i <= Len(b)
          /\ SubSeq(a, 1, i - 1) = SubSeq(b, 1, i - 1)
          /\ Ord(a[i]) < Ord(b[i])
    \/ Len(a) < Len(b) /\ a = SubSeq(b, 1, Len(a))

\* sorted(list(S))
RECURSIVE Sorted(_)
Sorted(S) ==
    IF S = {} THEN <<>>
    ELSE LET m == CHOOSE x \in S : \A y \in S \ {x} : LexLess(x, y)
         IN <<m>> \o Sorted(S \ {m})

\* "\n".join(q)
RECURSIVE JoinLines(_)
JoinLines(q) ==
    IF q = <<>> THEN <<>>
    ELSE IF Len(q) = 1 THEN q[1]
    ELSE q[1] \o <<NL>> \o JoinLines(Tail(q))

\* std_libs
StdLibs ==
    {<<"o", "s">>, <<"s", "y", "s">>, <<"r", "e">>, <<"j", "s", "o", "n">>,
     <<"m", "a", "t", "h">>, <<"r", "a", "n", "d", "o", "m">>,
     <<"d", "a", "t", "e", "t", "i", "m", "e">>, <<"t", "i", "m", "e">>,
     <<"p", "a", "t", "h", "l", "i", "b">>, <<"t", "y", "p", "i", "n", "g">>,
     <<"c", "o", "l", "l", "e", "c", "t", "i", "o", "n", "s">>,
     <<"i", "t", "e", "r", "t", "o", "o", "l", "s">>,
     <<"f", "u", "n", "c", "t", "o", "o", "l", "s">>, <<"a", "b", "c">>,
     <<"c", "o", "p", "y">>, <<"s", "h", "u", "t", "i", "l">>}

\* the dependencies of all templates, in the order the loops visit them
RECURSIVE AllDeps(_)
AllDeps(tmpls) ==
    IF tmpls = <<>> THEN <<>> ELSE Head(tmpls).val.dependencies \o AllDeps(Tail(tmpls))

RECURSIVE FirstSeen(_, _)
FirstSeen(q, acc) ==
    IF q = <<>> THEN acc
    ELSE FirstSeen(Tail(q),
            IF \E i \in 1..Len(acc) : acc[i] = Head(q) THEN acc ELSE Append(acc, Head(q)))

GenerateRequirementsUnsorted(tmpls) ==
    JoinLines(FirstSeen(SelectSeq([i \in 1..Len(AllDeps(tmpls)) |-> Lower(AllDeps(tmpls)[i])],
                                  LAMBDA d : d \notin StdLibs), <<>>))

\* generate_requirements(templates): the set of lower-cased dependencies not
\* in std_libs, sorted, one per line
GenerateRequirements(tmpls) ==
    LET deps == AllDeps(tmpls)
        dependencies == {Lower(deps[i]) : i \in {k \in 1..Len(deps) : Lower(deps[k]) \notin StdLibs}}
    IN JoinLines(Sorted(dependencies))

\* dependency lists a template may declare
DepLists ==
    {<<>>,
     <<<<"N", "u", "m", "P", "y">>>>,
     <<<<"n", "u", "m", "p", "y">>>>,
     <<<<"s", "c", "i", "p", "y">>, <<"N", "u", "m", "P", "y">>>>,
     <<<<"O", "S">>, <<"n", "u", "m", "p", "y">>>>,
     <<<<"S", "c", "i", "P", "y">>, <<"o", "s">>, <<"p", "a", "n", "d", "a", "s", "-", "2">>>>}

\* the name a template is stored under when it is the k-th of a map
FileOf ==
    <<Step01 \o <<"_", "test", ".py">>, Step02 \o <<"_", "test", ".py">>,
      Step03 \o <<"_", "test", ".py">>, <<"data_loader", ".py">>, MainFilename>>

\* the artifact maps requirements are collected from
InitReq ==
    /\ \E n \in 0..MaxArtifacts : \E d \in [1..n -> DepLists] :
         templates = [i \in 1..n |->
            [key |-> FileOf[i],
             val |-> [Artifact(Step01, FileOf[i]) EXCEPT !.dependencies = d[i]]]]
    /\ plan = <<>> /\ stepIdx = 0 /\ template = NoTemplate
    /\ pc = "requirements"

\* reqs = generate_requirements(templates)
Aggregate ==
    /\ pc = "requirements"
    /\ reqs' = GenerateRequirements(templates)
    /\ pc' = "aggregated"
    /\ UNCHANGED <<pipeVars, proc, doc, wire, loaded>>

-----------------------------------------------------------------------------
(* The persisted plan: plan_obj.model_dump_json(indent=2) written to the   *)
(* plan file, ImplementationPlan.model_validate_json read from it.  The    *)
(* JSON text is a sequence of characters; a key name is one lexeme.        *)

NoPlan == [paper_title |-> <<>>, algorithm_name |-> <<>>, summary |-> <<>>, steps |-> <<>>]

Q == "\""
BS == "\\"

\* StepType: member name -> value
StepType ==
    ("SETUP" :> <<"setup">>) @@ ("DATA_GENERATION" :> <<"data_generation">>)
    @@ ("DATA_LOADING" :> <<"data_loading">>) @@ ("PREPROCESSING" :> <<"preprocessing">>)
    @@ ("CORE_LOGIC" :> <<"core_logic">>) @@ ("TRAINING" :> <<"training">>)
    @@ ("INFERENCE" :> <<"inference">>) @@ ("VISUALIZATION" :> <<"visualization">>)
    @@ ("VALIDATION" :> <<"validation">>)

RECURSIVE EscapeQuoteOnly(_)
EscapeQuoteOnly(str) ==
    IF str = <<>> THEN <<>>
    ELSE (IF Head(str) = Q THEN <<BS, Q>> ELSE <<Head(str)>>) \o EscapeQuoteOnly(Tail(str))

\* the characters of a JSON string literal: quote, backslash and newline
\* are written as escapes
RECURSIVE Escape(_)
Escape(str) ==
    IF str = <<>> THEN <<>>
    ELSE (IF Head(str) = Q THEN <<BS, Q>>
          ELSE IF Head(str) = BS THEN <<BS, BS>>
          ELSE IF Head(str) = NL THEN <<BS, "n">>
          ELSE <<Head(str)>>) \o Escape(Tail(str))

RECURSIVE JoinWith(_, _)
JoinWith(parts, sep) ==
    IF parts = <<>> THEN <<>>
    ELSE IF Len(parts) = 1 THEN parts[1]
    ELSE parts[1] \o sep \o JoinWith(Tail(parts), sep)

DumpStr(str) == <<Q>> \o Escape(str) \o <<Q>>

DumpList(parts) ==
    IF parts = <<>> THEN <<"[", "]">>
    ELSE <<"[", NL>> \o JoinWith(parts, <<",", NL>>) \o <<NL, "]">>

DumpStrList(l) == DumpList([i \in 1..Len(l) |-> DumpStr(l[i])])

\* an object: the members in field declaration order, indented
DumpObject(members) ==
    <<LB, NL>>
    \o JoinWith([i \in 1..Len(members) |-> <<WS, Q, members[i].key, Q, ":", WS>> \o members[i].val],
                <<",", NL>>)
    \o <<NL, RB>>

DumpStep(st) ==
    DumpObject(<<[key |-> "step_id", val |-> DumpStr(st.step_id)],
                 [key |-> "title", val |-> DumpStr(st.title)],
                 [key |-> "description", val |-> DumpStr(st.description)],
                 [key |-> "step_type", val |-> DumpStr(StepType[st.step_type])],
                 [key |-> "inputs", val |-> DumpStrList(st.inputs)],
                 [key |-> "outputs", val |-> DumpStrList(st.outputs)],
                 [key |-> "dependencies", val |-> DumpStrList(st.dependencies)],
                 [key |-> "code_prompt", val |-> DumpStr(st.code_prompt)]>>)

\* plan_obj.model_dump_json(indent=2)
DumpJson(d) ==
    DumpObject(<<[key |-> "paper_title", val |-> DumpStr(d.paper_title)],
                 [key |-> "algorithm_name", val |-> DumpStr(d.algorithm_name)],
                 [key |-> "summary", val |-> DumpStr(d.summary)],
                 [key |-> "steps",
                  val |-> DumpList([i \in 1..Len(d.steps) |-> DumpStep(d.steps[i])])]>>)

\* parsed JSON values: a string, a list of values, an object of members
JStr(str) == [type |-> "str", str |-> str, items |-> <<>>]
JList(items) == [type |-> "list", str |-> <<>>, items |-> items]
JObj(members) == [type |-> "obj", str |-> <<>>, items |-> members]

ReadOk(val, next) == [ok |-> TRUE, val |-> val, next |-> next]
ReadFail == [ok |-> FALSE, val |-> JStr(<<>>), next |-> 0]

\* the first position from i on that holds no whitespace
SkipWs(t, i) ==
    IF \E k \in i..Len(t) : t[k] \notin {WS, NL}
    THEN CHOOSE k \in i..Len(t) : t[k] \notin {WS, NL} /\ \A m \in i..k - 1 : t[m] \in {WS, NL}
    ELSE Len(t) + 1

\* the rest of a string literal, from i on: escapes are decoded, a raw
\* newline or the end of the text inside the literal is an error
RECURSIVE ScanStr(_, _, _)
ScanStr(t, i, acc) ==
    IF i > Len(t) \/ t[i] = NL THEN ReadFail
    ELSE IF t[i] = Q THEN ReadOk(JStr(acc), i + 1)
    ELSE IF t[i] = BS
    THEN IF i + 1 > Len(t) \/ t[i + 1] \notin {Q, BS, "n"} THEN ReadFail
         ELSE ScanStr(t, i + 2, Append(acc, IF t[i + 1] = "n" THEN NL ELSE t[i + 1]))
    ELSE ScanStr(t, i + 1, Append(acc, t[i]))

RECURSIVE ReadValue(_, _), ReadItems(_, _, _), ReadMembers(_, _, _)

\* the JSON value that starts at or after i
ReadValue(t, i) ==
    LET j == SkipWs(t, i)
    IN IF j > Len(t) THEN ReadFail
       ELSE IF t[j] = Q THEN ScanStr(t, j + 1, <<>>)
       ELSE IF t[j] = "[" THEN ReadItems(t, j + 1, <<>>)
       ELSE IF t[j] = LB THEN ReadMembers(t, j + 1, <<>>)
       ELSE ReadFail

\* the items of a list, from where an item (or, in an empty list, the
\* closing bracket) is due
ReadItems(t, i, acc) ==
    LET j == SkipWs(t, i)
    IN IF j <= Len(t) /\ t[j] = "]" /\ acc = <<>> THEN ReadOk(JList(acc), j + 1)
       ELSE LET r == ReadValue(t, j)
                k == SkipWs(t, r.next)
            IN IF ~r.ok \/ k > Len(t) THEN ReadFail
               ELSE IF t[k] = "," THEN ReadItems(t, k + 1, Append(acc, r.val))
               ELSE IF t[k] = "]" THEN ReadOk(JList(Append(acc, r.val)), k + 1)
               ELSE ReadFail

\* the members of an object, from where a key (or, in an empty object, the
\* closing brace) is due
ReadMembers(t, i, acc) ==
    LET j == SkipWs(t, i)
    IN IF j <= Len(t) /\ t[j] = RB /\ acc = <<>> THEN ReadOk(JObj(acc), j + 1)
       ELSE IF j > Len(t) \/ t[j] # Q THEN ReadFail
       ELSE LET key == ScanStr(t, j + 1, <<>>)
                c == SkipWs(t, key.next)
            IN IF ~key.ok \/ c > Len(t) \/ t[c] # ":" THEN ReadFail
               ELSE LET r == ReadValue(t, c + 1)
                        k == SkipWs(t, r.next)
                        m == [key |-> key.val.str, val |-> r.val]
                    IN IF ~r.ok \/ k > Len(t) THEN ReadFail
                       ELSE IF t[k] = "," THEN ReadMembers(t, k + 1, Append(acc, m))
                       ELSE IF t[k] = RB THEN ReadOk(JObj(Append(acc, m)), k + 1)
                       ELSE ReadFail

\* the text is one JSON value and nothing else
ParseJson(t) ==
    LET r == ReadValue(t, 1)
    IN IF r.ok /\ SkipWs(t, r.next) > Len(t) THEN r ELSE ReadFail

\* the value of an object's field: of the members with the key, the last
HasMember(obj, key) == \E i \in 1..Len(obj.items) : obj.items[i].key = <<key>>

Member(obj, key) ==
    obj.items[CHOOSE i \in 1..Len(obj.items) :
                /\ obj.items[i].key = <<key>>
                /\ \A m \in i + 1..Len(obj.items) : obj.items[m].key # <<key>>].val

\* a required str field is present and a string
StrField(obj, key) == HasMember(obj, key) /\ Member(obj, key).type = "str"

\* a List[str] field with default []: absent, or a list of strings
ListField(obj, key) ==
    HasMember(obj, key) =>
        /\ Member(obj, key).type = "list"
        /\ \A i \in 1..Len(Member(obj, key).items) : Member(obj, key).items[i].type = "str"

ListOf(obj, key) ==
    IF HasMember(obj, key)
    THEN [i \in 1..Len(Member(obj, key).items) |-> Member(obj, key).items[i].str]
    ELSE <<>>

\* WorkflowStep validation of a parsed value
StepValid(v) ==
    /\ v.type = "obj"
    /\ \A key \in {"step_id", "title", "description", "step_type", "code_prompt"} : StrField(v, key)
    /\ \E name \in DOMAIN StepType : StepType[name] = Member(v, "step_type").str
    /\ \A key \in {"inputs", "outputs", "dependencies"} : ListField(v, key)

ToStep(v) ==
    [step_id |-> Member(v, "step_id").str,
     title |-> Member(v, "title").str,
     description |-> Member(v, "description").str,
     step_type |-> CHOOSE name \in DOMAIN StepType : StepType[name] = Member(v, "step_type").str,
     inputs |-> ListOf(v, "inputs"),
     outputs |-> ListOf(v, "outputs"),
     dependencies |-> ListOf(v, "dependencies"),
     code_prompt |-> Member(v, "code_prompt").str]

\* ImplementationPlan.model_validate_json(plan_json): the plan, or the failure
ValidateJson(t) ==
    LET r == ParseJson(t)
        v == r.val
        ok == /\ r.ok /\ v.type = "obj"
              /\ \A key \in {"paper_title", "algorithm_name", "summary"} : StrField(v, key)
              /\ HasMember(v, "steps") /\ Member(v, "steps").type = "list"
              /\ \A i \in 1..Len(Member(v, "steps").items) : StepValid(Member(v, "steps").items[i])
    IN IF ok
       THEN [ok |-> TRUE,
             plan |-> [paper_title |-> Member(v, "paper_title").str,
                       algorithm_name |-> Member(v, "algorithm_name").str,
                       summary |-> Member(v, "summary").str,
                       steps |-> [i \in 1..Len(Member(v, "steps").items) |->
                                    ToStep(Member(v, "steps").items[i])]]]
       ELSE [ok |-> FALSE, plan |-> NoPlan]

MaxPlanSteps == 2

\* str values of plan fields: with a quote, with a backslash before n, with a
\* line break
Strs == {<<"a", Q, "b">>, <<BS, "n">>, <<"x", NL, "y">>}

\* the steps of the plans written
StepDocs ==
    {[step_id |-> <<"s", "1">>, title |-> str, description |-> <<>>, step_type |-> ty,
      inputs |-> l, outputs |-> <<>>, dependencies |-> l \o <<<<"s", "0">>>>,
      code_prompt |-> str \o <<NL, Q>>] :
        str \in Strs, ty \in {"SETUP", "CORE_LOGIC"}, l \in {<<>>, <<<<"x", ",", Q>>, <<>>>>}}

\* the plan the plan command got from generate_plan
InitPlan ==
    /\ \E t \in Strs : \E st \in SeqsUpTo(StepDocs, MaxPlanSteps) :
         doc = [paper_title |-> t, algorithm_name |-> <<"A", WS, "b">>, summary |-> t \o t,
                steps |-> st]
    /\ wire = <<>> /\ loaded = NoPlan
    /\ proc = NotStarted /\ reqs = <<>>
    /\ pc = "plan"

\* _plan_impl: f.write(plan_obj.model_dump_json(indent=2))
SavePlan ==
    /\ pc = "plan"
    /\ wire' = DumpJson(doc)
    /\ pc' = "saved"
    /\ UNCHANGED <<pipeVars, proc, reqs, doc, loaded>>

\* _generate_impl: plan_obj = ImplementationPlan.model_validate_json(f.read());
\* a failure ends the command with typer.Exit(code=1)
LoadPlan ==
    /\ pc = "saved"
    /\ loaded' = ValidateJson(wire).plan
    /\ pc' = IF ValidateJson(wire).ok THEN "loaded" ELSE "exit"
    /\ UNCHANGED <<pipeVars, proc, reqs, doc, wire>>

-----------------------------------------------------------------------------
(* parse_paper and generate_plan, the two callers that wrap a failure of   *)
(* call_gemini.  Document text is run-length encoded: a sequence of runs   *)
(* [src, n], n characters that come from src.                              *)

ContextMin == 500
PromptBudget == 30000

Run(src, n) == [src |-> src, n |-> n]

\* a text of n characters from src
Text(src, n) == IF n = 0 THEN <<>> ELSE <<Run(src, n)>>

\* len(t)
RECURSIVE TextLen(_)
TextLen(t) == IF t = <<>> THEN 0 ELSE Head(t).n + TextLen(Tail(t))

PrefixWhole(t, k) == t

\* t[:k]
RECURSIVE Prefix(_, _)
Prefix(t, k) ==
    IF t = <<>> \/ k <= 0 THEN <<>>
    ELSE IF Head(t).n <= k THEN <<Head(t)>> \o Prefix(Tail(t), k - Head(t).n)
    ELSE <<Run(Head(t).src, k)>>

\* the section names parse_paper asks extract_pdf_sections for, in order
SectionNames ==
    <<<<"m", "e", "t", "h", "o", "d">>,
      <<"a", "l", "g", "o", "r", "i", "t", "h", "m">>,
      <<"i", "m", "p", "l", "e", "m", "e", "n", "t", "a", "t", "i", "o", "n">>,
      <<"m", "o", "d", "e", "l">>,
      <<"a", "p", "p", "r", "o", "a", "c", "h">>,
      <<"p", "r", "o", "p", "o", "s", "e", "d", " ", "m", "e", "t", "h", "o", "d">>>>

\* f"\n\n--- SECTION: {sec_name.upper()} ---\n": 15 characters, the name, 5
SectionHeader(i) == Text(<<"header", i>>, 15 + Len(SectionNames[i]) + 5)

\* the for loop over sections.items(): header and text of each non-empty one
RECURSIVE SectionsText(_, _)
SectionsText(lens, i) ==
    IF i > Len(lens) THEN <<>>
    ELSE (IF lens[i] > 0 THEN SectionHeader(i) \o Text(<<"section", i>>, lens[i]) ELSE <<>>)
         \o SectionsText(lens, i + 1)

ContextAlwaysSections(p) == SectionsText(p.sections, 1)

\* the context: the sections, or the text of the first pages when they are
\* shorter than 500 characters
Context(p) ==
    LET secs == SectionsText(p.sections, 1)
    IN IF TextLen(secs) < ContextMin THEN Text(<<"pages">>, p.text) ELSE secs

NoTitle == <<"None">>

\* the prompt of parse_paper
ParsePrompt(t, context) ==
    <<"Paper Title:", t, "Text content from paper:">> \o Prefix(context, PromptBudget)

SampleAlgorithm == [name |-> <<"bubble">>, summary |-> <<"sorts">>]

\* the prompt of generate_plan
PlanPrompt(t, algorithm) ==
    <<"Paper Title:", t, "Algorithm:", algorithm.name, "Summary:", algorithm.summary,
      "Algorithm Steps from Paper:", algorithm, "Return a JSON matching the ImplementationPlan schema.">>

StagePending == [status |-> "pending", kind |-> "", msg |-> "", value |-> NoValue]
StageReturned(v) == [status |-> "returned", kind |-> "", msg |-> "", value |-> v]
StageRaised(kind, msg) == [status |-> "raised", kind |-> kind, msg |-> msg, value |-> NoValue]

\* "Ensure title matches input if LLM hallucinates or omits it"
FixTitle(paper, t) ==
    IF t # NoTitle /\ t # <<>> /\ (paper.title = <<>> \/ paper.title = <<"Algorithm">>)
    THEN [paper EXCEPT !.title = t] ELSE paper

ParseResultUnwrapped(r, t) ==
    IF r.status = "returned" THEN StageReturned(FixTitle(r.value, t))
    ELSE StageRaised(r.kind, r.msg)

\* the try block of parse_paper once call_gemini is back
ParseResult(r, t) ==
    IF r.status = "returned" THEN StageReturned(FixTitle(r.value, t))
    ELSE StageRaised("ParsingError", "LLM parsing failed")

\* the try block of generate_plan once call_gemini is back
PlanResult(r) ==
    IF r.status = "returned" THEN StageReturned(r.value)
    ELSE StageRaised("PlanningError", "Failed to generate plan")

MaxSections == 2

\* lengths of section text and of the text of the first pages
SectionLens == {0, 250, 473, 474, 30000}
PagesLens == {0, 100, 30001}

\* the six sections, of which the first MaxSections may have been found
SectionInputs ==
    {lens \in [1..Len(SectionNames) -> SectionLens] :
        \A i \in 1..Len(SectionNames) : i > MaxSections => lens[i] = 0}

NoPdf == [exists |-> FALSE, sections |-> <<>>, text |-> 0]

StageIdle ==
    /\ fn = "" /\ pdf = NoPdf /\ title = NoTitle /\ context_text = <<>>
    /\ stageResult = StagePending

InitStage ==
    /\ fn \in {"parse_paper", "generate_plan"}
    /\ IF fn = "parse_paper"
       THEN /\ pdf \in {NoPdf} \cup [exists : {TRUE}, sections : SectionInputs, text : PagesLens]
            /\ title \in {NoTitle, <<"My", "Paper">>}
       ELSE /\ pdf = NoPdf
            /\ title = <<"My", "Paper">>
    /\ context_text = <<>>
    /\ stageResult = StagePending
    /\ env \in {[p \in {"anthropic", "groq"} |-> FALSE], [p \in {"anthropic", "groq"} |-> TRUE]}
    /\ cModel \in ModelArgs
    /\ cSchema = NoSchema /\ cPrompt = <<>>
    /\ attempt = 1 /\ sent = <<>> /\ trace = <<>> /\ sleeps = 0
    /\ cResult = CallPending
    /\ pc = "stage"

\* parse_paper up to its call of call_gemini
StartParse ==
    /\ pc = "stage" /\ fn = "parse_paper"
    /\ IF ~pdf.exists
       THEN /\ stageResult' = StageRaised("FileNotFoundError", "PDF not found")
            /\ pc' = "finished"
            /\ UNCHANGED <<context_text, cPrompt, cSchema>>
       ELSE /\ context_text' = Context(pdf)
            /\ IF context_text' = <<>>
               THEN /\ stageResult' =
                         StageRaised("ParsingError", "Could not extract any text from the PDF.")
                    /\ pc' = "finished"
                    /\ UNCHANGED <<cPrompt, cSchema>>
               ELSE /\ cPrompt' = ParsePrompt(title, context_text')
                    /\ cSchema' = "ParsedPaper"
                    /\ pc' = "attempt"
                    /\ UNCHANGED stageResult
    /\ UNCHANGED <<fn, pdf, title, env, cModel, attempt, sent, trace, sleeps, cResult>>
    /\ UNCHANGED pipeVars

\* call_gemini is back in parse_paper
FinishParse ==
    /\ pc = "returned" /\ fn = "parse_paper"
    /\ stageResult' = ParseResult(cResult, title)
    /\ pc' = "finished"
    /\ UNCHANGED <<fn, pdf, title, context_text>>
    /\ UNCHANGED callVars
    /\ UNCHANGED pipeVars

\* generate_plan up to its call of call_gemini
StartPlan ==
    /\ pc = "stage" /\ fn = "generate_plan"
    /\ cPrompt' = PlanPrompt(title, SampleAlgorithm)
    /\ cSchema' = "ImplementationPlan"
    /\ pc' = "attempt"
    /\ UNCHANGED <<fn, pdf, title, context_text, stageResult>>
    /\ UNCHANGED <<env, cModel, attempt, sent, trace, sleeps, cResult>>
    /\ UNCHANGED pipeVars

\* call_gemini is back in generate_plan
FinishPlan ==
    /\ pc = "returned" /\ fn = "generate_plan"
    /\ stageResult' = PlanResult(cResult)
    /\ pc' = "finished"
    /\ UNCHANGED <<fn, pdf, title, context_text>>
    /\ UNCHANGED callVars
    /\ UNCHANGED pipeVars

-----------------------------------------------------------------------------
(* Specifications                                                          *)

RouterIdle == rModel = <<>> /\ rProvider = ""

ExtractIdle ==
    /\ xBody = <<>> /\ xPre = <<>> /\ xPost = <<>> /\ xFence = "none"
    /\ xSchema = "SampleModel" /\ xText = <<>> /\ xResult = Pending

CallIdle ==
    /\ env = [p \in {"anthropic", "groq"} |-> FALSE]
    /\ cModel = NoneModel /\ cSchema = NoSchema /\ cPrompt = <<>>
    /\ attempt = 1 /\ sent = <<>> /\ trace = <<>> /\ sleeps = 0
    /\ cResult = CallPending

PipeIdle == plan = <<>> /\ stepIdx = 0 /\ template = NoTemplate /\ templates = <<>>

ToolIdle ==
    /\ proc = NotStarted /\ reqs = <<>>
    /\ doc = NoPlan /\ wire = <<>> /\ loaded = NoPlan

\* _get_provider on its own
SpecRouterInit ==
    InitRouter /\ StageIdle /\ ExtractIdle /\ CallIdle /\ PipeIdle /\ ToolIdle /\ pc = "router"
SpecRouterNext == Route /\ UNCHANGED <<stageVars, extractVars, callVars, pipeVars, toolVars, pc>>
SpecRouter == SpecRouterInit /\ [][SpecRouterNext]_vars

\* _parse_structured_response on its own
SpecExtractInit ==
    RouterIdle /\ StageIdle /\ InitExtract /\ CallIdle /\ PipeIdle /\ ToolIdle /\ pc = "extract"
SpecExtractNext == Extract /\ UNCHANGED <<stageVars, routerVars, callVars, pipeVars, toolVars, pc>>
SpecExtract == SpecExtractInit /\ [][SpecExtractNext]_vars

\* one call of call_llm made directly, as the tests make it
InitCall ==
    /\ env \in [{"anthropic", "groq"} -> BOOLEAN]
    /\ cModel \in ModelArgs
    /\ cSchema \in {NoSchema, "SampleModel"}
    /\ cPrompt = <<"What is 2+2?">>
    /\ attempt = 1 /\ sent = <<>> /\ trace = <<>> /\ sleeps = 0
    /\ cResult = CallPending
    /\ pc = "attempt"

SpecCallInit == RouterIdle /\ StageIdle /\ ExtractIdle /\ InitCall /\ PipeIdle /\ ToolIdle
SpecCallNext ==
    \/ Attempt /\ UNCHANGED <<stageVars, routerVars, extractVars, toolVars>>
    \/ Backoff /\ UNCHANGED <<stageVars, routerVars, extractVars, toolVars>>
SpecCall == SpecCallInit /\ [][SpecCallNext]_vars

\* generate_main_file(plan, templates), then python main.py
SpecMainNext ==
    \/ AssembleMain /\ UNCHANGED <<stageVars, routerVars, extractVars, callVars>>
    \/ StartMain /\ UNCHANGED <<stageVars, routerVars, extractVars, callVars>>
    \/ RunBlock /\ UNCHANGED <<stageVars, routerVars, extractVars, callVars>>
    \/ Summary /\ UNCHANGED <<stageVars, routerVars, extractVars, callVars>>
    \/ Guard /\ UNCHANGED <<stageVars, routerVars, extractVars, callVars>>
SpecMainInit == RouterIdle /\ StageIdle /\ ExtractIdle /\ CallIdle /\ InitMain /\ ToolIdle
SpecMain == SpecMainInit /\ [][SpecMainNext]_vars

\* generate_requirements(templates)
SpecReqInit == RouterIdle /\ StageIdle /\ ExtractIdle /\ CallIdle /\ InitReq /\ ToolIdle
SpecReqNext == Aggregate /\ UNCHANGED <<stageVars, routerVars, extractVars, callVars>>
SpecReq == SpecReqInit /\ [][SpecReqNext]_vars

\* the plan command saves the plan, the generate command loads it
SpecPlanNext ==
    \/ SavePlan /\ UNCHANGED <<stageVars, routerVars, extractVars, callVars>>
    \/ LoadPlan /\ UNCHANGED <<stageVars, routerVars, extractVars, callVars>>
SpecPlanInit == RouterIdle /\ StageIdle /\ ExtractIdle /\ CallIdle /\ PipeIdle /\ InitPlan
SpecPlan == SpecPlanInit /\ [][SpecPlanNext]_vars

\* parse_paper(pdf_path, title, model_name) or generate_plan(paper_title,
\* algorithm, model_name), down to the provider adapters
SpecStageInit == RouterIdle /\ ExtractIdle /\ InitStage /\ PipeIdle /\ ToolIdle
SpecStageNext ==
    \/ StartParse /\ UNCHANGED <<routerVars, extractVars, toolVars>>
    \/ StartPlan /\ UNCHANGED <<routerVars, extractVars, toolVars>>
    \/ Attempt /\ UNCHANGED <<stageVars, routerVars, extractVars, toolVars>>
    \/ Backoff /\ UNCHANGED <<stageVars, routerVars, extractVars, toolVars>>
    \/ FinishParse /\ UNCHANGED <<routerVars, extractVars, toolVars>>
    \/ FinishPlan /\ UNCHANGED <<routerVars, extractVars, toolVars>>
SpecStage == SpecStageInit /\ [][SpecStageNext]_vars

\* generate_project_code(plan, model_name=cModel)
Init ==
    /\ RouterIdle /\ StageIdle /\ ExtractIdle /\ ToolIdle
    /\ env \in [{"anthropic", "groq"} -> BOOLEAN]
    /\ cModel \in ModelArgs
    /\ cSchema = NoSchema /\ cPrompt = <<>>
    /\ attempt = 1 /\ sent = <<>> /\ trace = <<>> /\ sleeps = 0
    /\ cResult = CallPending
    /\ plan \in Plans
    /\ stepIdx = 1
    /\ template = NoTemplate
    /\ templates = <<>>
    /\ pc = "loop"

Next ==
    \/ StartStep /\ UNCHANGED <<stageVars, routerVars, extractVars, toolVars>>
    \/ Attempt /\ UNCHANGED <<stageVars, routerVars, extractVars, toolVars>>
    \/ Backoff /\ UNCHANGED <<stageVars, routerVars, extractVars, toolVars>>
    \/ FinishStep /\ UNCHANGED <<stageVars, routerVars, extractVars, toolVars>>
    \/ Assemble /\ UNCHANGED <<stageVars, routerVars, extractVars, toolVars>>

Spec == Init /\ [][Next]_vars

-----------------------------------------------------------------------------
(* Properties                                                              *)

\* the attempts of the current call whose body failed
FailedAttempts == {i \in 1..Len(trace) : ~BodySucceeds(trace[i], cSchema)}

\* C1: with the budget of 3 attempts, a call whose attempts fail k < 3 times
\* and then succeed returns the success value after exactly k+1 adapter calls;
\* a call whose attempts all fail raises after exactly 3 adapter calls; there
\* is never a 4th adapter call.
C1_RetryBudget ==
    /\ Len(sent) <= 3
    /\ pc = "returned" =>
        LET n == Len(trace)
            k == Cardinality(FailedAttempts)
        IN /\ Len(sent) = n
           /\ BodySucceeds(trace[n], cSchema) =>
                /\ FailedAttempts = 1..(n - 1)
                /\ k < 3
                /\ Len(sent) = k + 1
                /\ cResult.status = "returned"
                /\ cResult.value = BodyValue(trace[n], cSchema)
           /\ FailedAttempts = 1..n =>
                /\ cResult.status = "raised"
                /\ Len(sent) = 3

\* two failing adapter calls, then a text, returned after the third call
C1_Witness ==
    /\ pc = "returned"
    /\ cResult.status = "returned"
    /\ Len(sent) = 3
    /\ trace[1].kind = "error" /\ trace[2].kind = "error" /\ trace[3].kind = "text"
    /\ cSchema = NoSchema
    /\ cResult.value = trace[3].text

\* the adapter's first call raised "API key not configured"
ConfigFailure ==
    /\ Len(trace) >= 1
    /\ trace[1].kind = "error"
    /\ trace[1].err \in {NotConfigured(p) : p \in Providers}

\* C2: a missing API key makes call_llm fail on the first attempt: the adapter
\* is entered exactly once and no backoff or retry happens.
C2_ConfigFailsFast ==
    (pc = "returned" /\ ConfigFailure) =>
        /\ Len(sent) = 1
        /\ sleeps = 0
        /\ attempt = 1

\* C3: when all attempts fail the caller gets a RetryError wrapping the last
\* attempt's error (the body's ValueError around the underlying error), and its
\* kind differs from the kind of the error of a single, unretried attempt.
C3_ExhaustionWrapped ==
    (pc = "returned" /\ cResult.status = "raised") =>
        LET last == trace[Len(trace)]
        IN /\ FailedAttempts = 1..3
           /\ cResult.kind = "RetryError"
           /\ cResult.chain = <<Err("ValueError", "LLM call failed"),
                                UnderlyingError(last, cSchema)>>
           /\ cResult.kind # BodyError(last, cSchema).kind

\* three empty responses from a configured Anthropic adapter
C3_Witness ==
    /\ pc = "returned"
    /\ cResult.status = "raised"
    /\ Len(trace) = 3
    /\ trace[3].err = Err("ValueError", "Empty response from Claude")
    /\ cResult.kind = "RetryError"

\* C4: _get_provider always returns one of the providers: gemini for a
\* "gemini" prefix, anthropic for a "claude" prefix, otherwise groq when one of
\* kimi/llama/mixtral/gemma/moonshotai occurs anywhere, otherwise the
\* configured default provider.
C4_RouterTotal ==
    rProvider # "" =>
        LET gem == Len(rModel) >= 6 /\ SubSeq(rModel, 1, 6) = Gemini
            cla == Len(rModel) >= 6 /\ SubSeq(rModel, 1, 6) = Claude
            grq == \E name \in GroqNames : \E i \in 1..Len(rModel) : OccursAt(rModel, name, i)
        IN /\ rProvider \in Providers
           /\ gem => rProvider = "gemini"
           /\ cla => rProvider = "anthropic"
           /\ (~gem /\ ~cla /\ grq) => rProvider = "groq"
           /\ (~gem /\ ~cla /\ ~grq) => rProvider = ConfigLlm.provider

\* "geminillama" has the gemini prefix and contains llama: the prefix wins
C4_Witness ==
    /\ rModel = Gemini \o Llama
    /\ rProvider = "gemini"

\* prose that holds no fence marker
FreeProse(p) == \A i \in 1..Len(p) : p[i] # Fence

\* the extraction returned the payload the text was built from
ReturnsBody == xResult = Returned(ToModel(xSchema, JsonLoads(xBody)))

\* C5: for every schema-conforming payload, extraction returns the payload
\* from its fenced (tagged or untagged), unfenced and prose-surrounded
\* encodings.
C5_RoundTrip ==
    (/\ xResult.kind # "pending"
     /\ xBody \in ConformingBodies(xSchema)
     /\ FreeProse(xPre) /\ FreeProse(xPost)) => ReturnsBody

\* unfenced text: a conforming object with text before and after it
ExtraTextCase ==
    /\ xResult.kind # "pending"
    /\ xFence = "none"
    /\ xBody \in ConformingBodies(xSchema)
    /\ xPre # <<>> /\ xPost # <<>>

NoneOf(p, S) == \A i \in 1..Len(p) : p[i] \notin S

Recoverable(text) ==
    \E i \in 1..Len(text) : \E j \in i..Len(text) : JsonLoads(SubSeq(text, i, j)).ok

ParseError == Raised("ValueError", ParseMsg)

\* C7: when no well-formed JSON document is recovered from the text (no span
\* of it is one, or the span the heuristics cut out is not one), extraction
\* fails with "Invalid JSON from LLM" and returns no value, not even a partial
\* one.
C7_MalformedFailsParse ==
    xResult.kind # "pending" =>
        /\ ~Recoverable(xText) => xResult = ParseError
        /\ ~JsonLoads(CleanText(xText)).ok => xResult = ParseError
        /\ xResult.kind # "ok" => xResult.value = NoValue

\* a truncated object after a prose word
C7_Witness ==
    /\ xResult = ParseError
    /\ xBody = <<LB, "name:test", "value:42">>
    /\ xPre = <<Word>>
    /\ xFence = "none"
    /\ ~Recoverable(xText)

IsComment(code) ==
    /\ code # <<>> /\ code[1] = "#"
    /\ \A i \in 1..Len(code) : code[i] = NL => (i < Len(code) /\ code[i + 1] = "#")

\* generate_step_code has just returned for step stepIdx - 1
StepReturned == pc = "loop" /\ stepIdx > 1

\* C9: generate_step_code never raises; when its call fails it returns a
\* placeholder named <step_id>_error.py whose code is a comment documenting
\* the failure and whose dependencies are empty, the placeholder is stored,
\* and generate_project_code goes on to the end of the plan.
C9_PlaceholderOnFailure ==
    /\ pc # "aborted"
    /\ (StepReturned /\ cResult.status = "raised") =>
        LET step == plan[stepIdx - 1]
        IN /\ template.filename = step.step_id \o <<"_", "error", ".py">>
           /\ IsComment(template.code)
           /\ Contains(template.code, StrOfError(cResult))
           /\ template.dependencies = <<>>
           /\ DictHas(templates, template.filename)
           /\ DictGet(templates, template.filename) = template
    /\ pc = "done" => stepIdx = Len(plan) + 1

\* the run ended with step_01 a placeholder and a later step generated
C9_Witness ==
    /\ pc = "done"
    /\ Len(plan) = 3
    /\ DictHas(templates, Step01 \o <<"_", "error", ".py">>)
    /\ DictHas(templates, Step02 \o <<"_", "setup", ".py">>)
    /\ DictGet(templates, Step02 \o <<"_", "setup", ".py">>).step_id = Step02

\* C10: the artifact generate_step_code returns carries the step_id of the
\* input step, whatever step_id the response carried, on the success path and
\* on the placeholder path.
C10_StepIdForced ==
    StepReturned => template.step_id = plan[stepIdx - 1].step_id

\* the response for step_01 carried step_id step_03
C10_Witness ==
    /\ StepReturned
    /\ cResult.status = "returned"
    /\ plan[stepIdx - 1].step_id = Step01
    /\ cResult.value.step_id = Step03
    /\ template.step_id = Step01

StepIds(steps) == {steps[i].step_id : i \in 1..Len(steps)}

\* no step depends on a step_id the plan does not have
NoMissingRefs(steps) ==
    \A i \in 1..Len(steps) : \A k \in 1..Len(steps[i].dependencies) :
        steps[i].dependencies[k] \in StepIds(steps)

\* the steps reachable from step i along dependencies, after n rounds
RECURSIVE DepClosure(_, _, _)
DepClosure(steps, S, n) ==
    IF n = 0 THEN S
    ELSE DepClosure(steps,
            S \cup {j \in 1..Len(steps) : \E i \in S : \E k \in 1..Len(steps[i].dependencies) :
                        steps[i].dependencies[k] = steps[j].step_id},
            n - 1)

DependsOn(steps, i) ==
    DepClosure(steps,
        {j \in 1..Len(steps) : \E k \in 1..Len(steps[i].dependencies) :
            steps[i].dependencies[k] = steps[j].step_id},
        Len(steps))

Acyclic(steps) == \A i \in 1..Len(steps) : i \notin DependsOn(steps, i)

ValidGraph(steps) == NoMissingRefs(steps) /\ Acyclic(steps)

\* the entry point the run assembled
MainCode == DictGet(templates, MainFilename).code

\* C11: for every plan whose dependency graph is acyclic with no missing
\* references, the execution order of the assembled entry point places every
\* step after all of its dependencies.
C11_DependencyOrder ==
    (pc = "done" /\ ValidGraph(plan)) =>
        LET order == ExecOrder(MainCode)
        IN \A i, j \in 1..Len(order) : \A s \in 1..Len(plan) :
              (plan[s].step_id = order[i]
                /\ \E k \in 1..Len(plan[s].dependencies) : plan[s].dependencies[k] = order[j])
              => j < i

\* C12: a plan whose dependency graph has a missing reference or a cycle is
\* rejected: the generation run fails and no entry point is assembled.
C12_InvalidGraphRejected ==
    ~ValidGraph(plan) =>
        /\ pc # "done"
        /\ \A k \in 1..Len(templates) : templates[k].val.step_id # MainId

\* the step_ids of the artifacts of a map
ArtifactIds(tmpls) == {tmpls[i].val.step_id : i \in 1..Len(tmpls)}

\* elements of a sequence, as a set
Range(q) == {q[i] : i \in 1..Len(q)}

\* generate_main_file has returned the entry point, now in template
Assembled == pc \in {"assembled", "run"}

\* C13: the entry point generate_main_file returns has an import or an
\* execution block only for step_ids that are the step_id of some artifact of
\* the map; a plan step with no artifact of its step_id is not referenced.
C13_OnlyArtifactSteps ==
    Assembled =>
        /\ Range(ExecOrder(template.code)) \subseteq ArtifactIds(templates)
        /\ Len(Imported(template.code)) = Len(ExecOrder(template.code))
        /\ \A i \in 1..Len(plan) :
              plan[i].step_id \notin ArtifactIds(templates)
                => plan[i].step_id \notin Range(ExecOrder(template.code))

\* the call for plan step i failed: its placeholder is in the artifact map
CallFailed(i) == DictHas(templates, plan[i].step_id \o <<"_", "error", ".py">>)

\* C14: in a three-step run where the call for step_02 fails after its
\* retries, the artifact map still has the artifacts of step_01 and step_03,
\* and the entry point has no import of and no block for step_02's
\* placeholder while it executes step_01 and step_03.
C14_FailedStepSkipped ==
    (pc = "done" /\ plan = ChainPlan /\ CallFailed(2) /\ ~CallFailed(1) /\ ~CallFailed(3)) =>
        /\ {Step01, Step03} \subseteq ArtifactIds(templates)
        /\ Step02 \notin Range(ExecOrder(MainCode))
        /\ Step02 \o <<"_", "error">> \notin Range(Imported(MainCode))
        /\ {Step01, Step03} \subseteq Range(ExecOrder(MainCode))

\* the positions of the output where a line of this kind stands
Lines(ev) == {i \in 1..Len(proc.out) : proc.out[i].ev = ev}

DeclaredInOrder(steps) ==
    \A i \in 1..Len(steps) : \A k \in 1..Len(steps[i].dependencies) :
        \E j \in 1..i - 1 : steps[j].step_id = steps[i].dependencies[k]

\* the map holds one artifact per plan step, and no other
OnePerStep(steps, tmpls) ==
    /\ Len(tmpls) = Len(steps)
    /\ \A i \in 1..Len(steps) :
          Cardinality({k \in 1..Len(tmpls) : tmpls[k].val.step_id = steps[i].step_id}) = 1

\* C16: for a plan declared in an order consistent with its dependencies and
\* an artifact map holding one artifact per step, the entry point has exactly
\* one execution block per plan step, in the plan's order.
C16_BlockPerStep ==
    (Assembled /\ DeclaredInOrder(plan) /\ OnePerStep(plan, templates)) =>
        ExecOrder(template.code) = [i \in 1..Len(plan) |-> plan[i].step_id]

\* C17: generate_main_file returns, for every plan and every artifact map, an
\* artifact with step_id main, filename main.py and no declared dependencies;
\* on the empty map its code has the main routine and the __main__ guard, no
\* step import and no step block.
C17_MainArtifact ==
    /\ pc = "assemble" => ENABLED AssembleMain
    /\ Assembled =>
        /\ template.step_id = MainId
        /\ template.filename = MainFilename
        /\ template.dependencies = <<>>
        /\ Contains(template.code, <<"def main():">>)
        /\ Contains(template.code, <<"if __name__ == \"__main__\":">>)
        /\ templates = <<>> =>
              Imported(template.code) = <<>> /\ Blocks(template.code) = <<>>

\* the entry point of the one-step plan and the empty map, as the test builds it
C17_Witness ==
    /\ pc = "assembled"
    /\ Len(plan) = 1 /\ templates = <<>>
    /\ template.filename = MainFilename
    /\ ~Contains(template.code, <<"import">>)

\* the lines of a text
RECURSIVE SplitLines(_)
SplitLines(text) ==
    IF text = <<>> THEN <<>>
    ELSE IF \A i \in 1..Len(text) : text[i] # NL THEN <<text>>
    ELSE LET k == NextAt(text, 0, NL)
         IN <<SubSeq(text, 1, k - 1)>> \o SplitLines(SubSeq(text, k + 1, Len(text)))

\* a name with the case of its letters flipped
SwapCase(name) ==
    LET upper == ("i" :> "I") @@ ("n" :> "N") @@ ("o" :> "O") @@ ("p" :> "P") @@ ("s" :> "S")
    IN [i \in 1..Len(name) |->
          IF name[i] \in DOMAIN upper THEN upper[name[i]] ELSE Lower(<<name[i]>>)[1]]

\* an artifact map with every declared dependency rewritten by f
Recased(tmpls, f(_)) ==
    [i \in 1..Len(tmpls) |->
        [tmpls[i] EXCEPT !.val.dependencies =
            [k \in 1..Len(tmpls[i].val.dependencies) |-> f(tmpls[i].val.dependencies[k])]]]

C19_PlanRoundTrip ==
    /\ pc # "exit"
    /\ pc = "loaded" =>
        /\ loaded.paper_title = doc.paper_title
        /\ loaded.algorithm_name = doc.algorithm_name
        /\ loaded.summary = doc.summary
        /\ Len(loaded.steps) = Len(doc.steps)
        /\ \A i \in 1..Len(doc.steps) :
              /\ loaded.steps[i].step_id = doc.steps[i].step_id
              /\ loaded.steps[i].title = doc.steps[i].title
              /\ loaded.steps[i].description = doc.steps[i].description
              /\ loaded.steps[i].step_type = doc.steps[i].step_type
              /\ loaded.steps[i].inputs = doc.steps[i].inputs
              /\ loaded.steps[i].outputs = doc.steps[i].outputs
              /\ loaded.steps[i].dependencies = doc.steps[i].dependencies
              /\ loaded.steps[i].code_prompt = doc.steps[i].code_prompt

\* a two-step plan whose texts hold a quote, a backslash and a line break
C19_Witness ==
    /\ pc = "loaded"
    /\ doc.paper_title = <<BS, "n">>
    /\ Len(doc.steps) = 2
    /\ doc.steps[1].title = <<"a", Q, "b">>
    /\ doc.steps[2].inputs = <<<<"x", ",", Q>>, <<>>>>
    /\ doc.steps[2].step_type = "CORE_LOGIC"
    /\ loaded = doc

\* C20: after generate_project_code on a plan of n steps with unique
\* step_ids the artifact map holds exactly n+1 artifacts: one for each step_id
\* of the plan and the main artifact, whatever filenames the model returned.
C20_ArtifactPerStep ==
    pc = "done" =>
        /\ Len(templates) = Len(plan) + 1
        /\ \A id \in StepIds(plan) \cup {MainId} :
              Cardinality({k \in 1..Len(templates) : templates[k].val.step_id = id}) = 1

\* C21: a step whose call hit a missing API key ends generate_project_code:
\* once that call is back the run is aborted, no placeholder is stored for
\* the step and no later step is started.
C21_ConfigErrorFatal ==
    (ConfigFailure /\ pc \notin {"attempt", "sleep", "returned"}) =>
        /\ pc = "aborted"
        /\ ~CallFailed(stepIdx)

\* C22: whenever call_gemini raises, whatever the error (a failing adapter or
\* a malformed or mismatching response), generate_plan raises PlanningError
\* and parse_paper raises ParsingError, and neither returns a value.
C22_StageFailurePropagates ==
    (pc = "finished" /\ cResult.status = "raised") =>
        /\ stageResult.status = "raised"
        /\ stageResult.value = NoValue
        /\ fn = "generate_plan" => stageResult.kind = "PlanningError"
        /\ fn = "parse_paper" => stageResult.kind = "ParsingError"

\* parse_paper after three responses that are text but not a ParsedPaper
C22_Witness ==
    /\ pc = "finished" /\ fn = "parse_paper"
    /\ Len(trace) = 3
    /\ \A i \in 1..3 : trace[i].kind = "text"
    /\ cResult.kind = "RetryError"
    /\ stageResult.status = "raised" /\ stageResult.kind = "ParsingError"

\* the context as it stands in the prompt of parse_paper
Embedded == SubSeq(cPrompt, 4, Len(cPrompt))

\* the runs of the text come from these sources
FromSources(t, kinds) == \A i \in 1..Len(t) : t[i].src[1] \in kinds

\* parse_paper got past the extraction of the PDF
ContextBuilt == fn = "parse_paper" /\ pdf.exists /\ pc # "stage"

\* C28: parse_paper takes the concatenated sections (their header lines
\* included) as context only when the concatenation has at least 500
\* characters, and the text of the first pages otherwise; an empty context
\* raises ParsingError with no request sent to a provider; the prompt embeds
\* the first 30,000 characters of the context and no more.
C28_ContextChoice ==
    ContextBuilt =>
        LET secs == TextLen(SectionsText(pdf.sections, 1))
        IN /\ secs >= ContextMin =>
                /\ FromSources(context_text, {"header", "section"})
                /\ TextLen(context_text) = secs
           /\ secs < ContextMin =>
                /\ FromSources(context_text, {"pages"})
                /\ TextLen(context_text) = pdf.text
           /\ context_text = <<>> =>
                /\ pc = "finished"
                /\ stageResult = StageRaised("ParsingError",
                                              "Could not extract any text from the PDF.")
                /\ sent = <<>> /\ trace = <<>>
           /\ context_text # <<>> =>
                /\ TextLen(Embedded) <= PromptBudget
                /\ TextLen(Embedded) = TextLen(context_text)
                      \/ TextLen(Embedded) = PromptBudget
                /\ \A i \in 1..Len(Embedded) :
                      /\ Embedded[i].src = context_text[i].src
                      /\ Embedded[i].n <= context_text[i].n
                      /\ i < Len(Embedded) => Embedded[i].n = context_text[i].n
                /\ \A k \in 1..Len(sent) : sent[k].prompt = BuildPrompt(cPrompt, cSchema)

\* one section of 30,000 characters: with its header the context exceeds the
\* budget and the prompt sent holds its first 30,000 characters
C28_Witness ==
    /\ ContextBuilt /\ pc = "finished"
    /\ pdf.sections[1] = 30000 /\ pdf.sections[2] = 0
    /\ TextLen(context_text) = 30026
    /\ TextLen(Embedded) = 30000
    /\ Len(sent) >= 1
    /\ stageResult.status = "returned"

\* the artifacts of the map generated for this step_id
ArtifactsOf(tmpls, id) == {k \in 1..Len(tmpls) : tmpls[k].val.step_id = id}

\* C23: generate_main_file pairs artifacts with plan steps by the artifact's
\* step_id field: every plan step that has an artifact is imported and
\* executed, and the module imported for an executed step is the file of an
\* artifact of that step, whatever the filenames are.
C23_PairedByStepId ==
    Assembled =>
        LET order == ExecOrder(template.code)
            mods == Imported(template.code)
        IN /\ \A i \in 1..Len(plan) :
                 ArtifactsOf(templates, plan[i].step_id) # {}
                    => plan[i].step_id \in Range(order)
           /\ Len(mods) = Len(order)
           /\ \A k \in 1..Len(order) :
                 \E j \in ArtifactsOf(templates, order[k]) :
                    RemovePy(templates[j].val.filename) = mods[k]

\* the id is "step_" followed by digits only
HasStepShape(id) ==
    Len(id) >= 2 /\ id[1] = "step_" /\ \A k \in 2..Len(id) : id[k] \in Digits

\* the filename starts with the token step_<digits>, and the token is this id
NamesStep(filename, id) ==
    /\ HasStepShape(id)
    /\ StartsWith(filename, id)
    /\ Len(filename) > Len(id) => filename[Len(id) + 1] \notin Digits

\* the artifacts, main apart, whose filename names the step
Candidates(tmpls, id) ==
    {k \in 1..Len(tmpls) :
        tmpls[k].val.step_id # MainId /\ NamesStep(tmpls[k].val.filename, id)}

Last(S) == CHOOSE k \in S : \A j \in S : j <= k

\* C29: a plan step gets an import and an execution block exactly when some
\* non-main artifact's filename starts with a step_<digits> token equal to the
\* step's step_id (so never when the id is not of that form); the module
\* imported is the file of the last such artifact of the map; there is one
\* import and one block per included plan step, in plan order.
C29_FilenamePairing ==
    Assembled =>
        LET inc == SelectSeq(plan, LAMBDA st : Candidates(templates, st.step_id) # {})
        IN /\ ExecOrder(template.code) = [i \in 1..Len(inc) |-> inc[i].step_id]
           /\ Imported(template.code) =
                 [i \in 1..Len(inc) |->
                    RemovePy(templates[Last(Candidates(templates, inc[i].step_id))].val.filename)]

\* step_02_test.py then step_02_init.py in the map: step_02 imports the latter
C29_Witness ==
    /\ pc = "assembled"
    /\ plan = ChainPlan
    /\ Len(templates) = 2
    /\ templates[1].key = Step02 \o <<"_", "test", ".py">>
    /\ templates[2].key = Step02 \o <<"_", "init", ".py">>
    /\ Imported(template.code) = <<Step02 \o <<"_", "init">>>>
    /\ ExecOrder(template.code) = <<Step02>>

\* the step "setup" with its artifact setup.py in the map is left out
C29_UnshapedLeftOut ==
    /\ pc = "assembled"
    /\ plan = NamedPlan
    /\ ArtifactsOf(templates, <<"setup">>) # {}
    /\ ExecOrder(template.code) = <<>>

\* C24: on unfenced text the payload is cut from the first "{" to the "}"
\* that balances it: a conforming object is recovered whatever braces the
\* prose after it holds, and a truncated or doubly nested object is never
\* returned as a value.
C24_BalancedMatching ==
    (xResult.kind # "pending" /\ xFence = "none") =>
        /\ (/\ xBody \in ConformingBodies(xSchema)
            /\ NoneOf(xPre, {LB, Fence}) /\ NoneOf(xPost, {Fence})) => ReturnsBody
        /\ (/\ xBody \in MalformedBodies(xSchema)
            /\ NoneOf(xPre, {LB, RB, Fence}) /\ NoneOf(xPost, {LB, RB, Fence}))
              => xResult.kind # "ok"

\* json.loads and model_validate on a candidate, taken as it is
Decode(c, schema) ==
    LET data == JsonLoads(c)
    IN IF ~data.ok THEN ParseError
       ELSE IF ~Validates(schema, data) THEN Raised("ValueError", SchemaMsg)
       ELSE Returned(ToModel(schema, data))

\* C25: the heuristics apply in a fixed order and the first that succeeds
\* decides the candidate: the interior of a json-tagged fence, even after an
\* earlier untagged fence; else the interior of the first fence; brace
\* trimming only on text from which no fenced block was taken.
C25_FixedOrder ==
    xResult.kind # "pending" =>
        /\ (xFence = "tagged" /\ NoneOf(xBody, {Fence}))
              => xResult = Decode(Strip(xBody), xSchema)
        /\ (xFence = "untagged" /\ NoneOf(xBody, {Fence}) /\ NoneOf(xPre, {Fence}))
              => xResult = Decode(Strip(xBody), xSchema)
        /\ (xFence = "none" /\ NoneOf(xText, {Fence}))
              => xResult = Decode(TrimBraces(Strip(xText)), xSchema)

\* C26: the step calls run one at a time in plan order: a call starts only
\* between calls and for the step the loop stands at, every request of its
\* attempts carries that step's prompt, the loop moves on by one step only
\* when the call is back, and the entry point is assembled only when the
\* call of every step of the plan is back.
C26_OneAtATime ==
    [][/\ (pc = "loop" /\ pc' = "attempt") =>
            /\ stepIdx' = stepIdx /\ stepIdx \in 1..Len(plan)
            /\ cPrompt' = StepPrompt(plan[stepIdx])
            /\ stepIdx > 1 => cResult.status # "pending"
            /\ sent' = <<>> /\ trace' = <<>>
       /\ Len(sent') > Len(sent) =>
            /\ stepIdx' = stepIdx
            /\ sent'[Len(sent')].prompt
                  = BuildPrompt(StepPrompt(plan[stepIdx]), "CodeTemplate")
       /\ stepIdx' # stepIdx =>
            /\ stepIdx' = stepIdx + 1
            /\ pc = "returned" /\ cResult.status # "pending"
       /\ (pc' = "done" \/ template'.step_id = MainId) =>
            /\ pc = "loop" /\ pc' = "done"
            /\ stepIdx = Len(plan) + 1
            /\ cResult.status # "pending"
            /\ template'.step_id = MainId
    ]_vars

\* a three-step run whose last call used all three attempts
C26_Witness ==
    /\ pc = "done"
    /\ plan = ChainPlan
    /\ Len(sent) = 3 /\ sleeps = 2
    /\ sent[3].prompt = BuildPrompt(StepPrompt(plan[3]), "CodeTemplate")
    /\ template.step_id = MainId

\* the i-th adapter call returned text that is not a value of the schema:
\* not JSON, or JSON that fails validation
BadResponse(i) ==
    /\ trace[i].kind = "text"
    /\ LET data == JsonLoads(CleanText(trace[i].text))
       IN ~data.ok \/ ~Validates(cSchema, data)

\* C27: with a schema, a response that cannot be parsed or does not match
\* the schema is a failed attempt: below the third attempt the call goes on
\* to a backoff and a new provider call, at the third it raises; there are
\* at most 3 provider calls; a well-formed response on a later attempt is
\* returned as the validated value.
C27_BadResponseRetried ==
    cSchema # NoSchema =>
        /\ Len(sent) <= MaxAttempts
        /\ \A i \in 1..Len(trace) :
              (BadResponse(i) /\ i = Len(trace)) =>
                 IF i < MaxAttempts
                 THEN /\ cResult = CallPending
                      /\ \/ pc = "sleep" /\ attempt = i
                         \/ pc = "attempt" /\ attempt = i + 1 /\ sleeps = i
                 ELSE pc = "returned" /\ cResult.status = "raised"
        /\ (/\ pc = "returned"
            /\ trace[Len(trace)].kind = "text"
            /\ ~BadResponse(Len(trace))) =>
               LET data == JsonLoads(CleanText(trace[Len(trace)].text))
               IN /\ cResult = CallReturned(ToModel(cSchema, data))
                  /\ Len(sent) = Len(trace)

\* truncated JSON, then a value of the wrong type, then the object: returned
C27_Witness ==
    /\ pc = "returned" /\ cSchema = "SampleModel"
    /\ Len(trace) = 3
    /\ trace[1] = AdapterText(<<LB, "name:test", "value:42">>)
    /\ trace[2] = AdapterText(<<LB, "name:test", "value:str", RB>>)
    /\ trace[3] = AdapterText(<<LB, "name:test", "value:42", RB>>)
    /\ cResult.status = "returned"
    /\ cResult.value.name = <<"test">> /\ cResult.value.value = <<"42">>

\* how many times the schema instruction stands in a prompt
InstructionCount(prompt) ==
    Cardinality({i \in 1..Len(prompt) : prompt[i] = JsonInstruction(cSchema)[1]})

\* C30: every attempt of a call sends the same request: the caller's prompt
\* followed, when a schema is given, by the schema instruction exactly once,
\* the same model id and the same temperature; the prompt, model and schema
\* arguments do not change between attempts.
C30_SameRequest ==
    /\ \A k \in 1..Len(sent) :
          /\ sent[k] = sent[1]
          /\ sent[k].model = EffectiveModel(cModel)
          /\ sent[k].temperature = "0.1"
          /\ StartsWith(sent[k].prompt, cPrompt)
          /\ IF cSchema = NoSchema
             THEN sent[k].prompt = cPrompt
             ELSE /\ InstructionCount(sent[k].prompt) = 1
                  /\ sent[k].prompt = cPrompt \o <<"\n\n">> \o JsonInstruction(cSchema)
    /\ cPrompt = <<"What is 2+2?">>
    /\ InstructionCount(cPrompt) = 0

\* three requests of a call with a schema
C30_Witness ==
    /\ Len(sent) = 3
    /\ cSchema = "SampleModel"
    /\ sent[3].prompt = <<"What is 2+2?", "\n\n", "You must output valid JSON matching this schema:", "SampleModel">>
    /\ sent[1] = sent[3]

====
